---- MODULE Spec2Model ----
(***************************************************************************)
(* Load-governance layer of finans-nova: the sliding-window RateLimiter    *)
(* and the ThrottleManager (src/src/services/throttle.py), the             *)
(* CircuitBreaker (src/src/utils/circuit_breaker.py), the ResourceMonitor  *)
(* (src/src/services/resource_monitor.py), the MetricsCollector            *)
(* (src/src/services/metrics.py) and the track_request wrapper             *)
(* (src/src/utils/metrics_decorator.py), as run by asyncio tasks.          *)
(*                                                                         *)
(* Time is time.time() in ticks of 1/TicksPerSecond seconds.  A step of a  *)
(* task is the code it runs between two points where it can be suspended   *)
(* (an await that really waits): asyncio runs that code without            *)
(* interleaving.                                                           *)
(***************************************************************************)
EXTENDS Integers, Sequences, FiniteSets, TLC

\* ---------------------------------------------------------------- bounds
\* concurrent tasks; clock resolution; clock moves; the largest caps, threshold
\* and recovery timeout a limiter or breaker is constructed with
NumTasks == 2
TicksPerSecond == 2
MaxAdvances == 3
MaxPerSecond == 2
MaxPerMinute == 3
MaxThreshold == 2
MaxRecoverySeconds == 1
\* when the dependency behind the breaker recovers, in ticks
RecoveredAt == 2
\* checks of the HealthMonitor that run their probes in one run
MaxHealthChecks == 2
\* samples the metrics loop appends in one run
MaxSamples == 2
\* calls of ThrottleManager.acquire in one run
MaxManagerCalls == 3
\* calls of record_request and record_service_call in one run
MaxMetricCalls == 3

\* ------------------------------------------------------- program constants
\* throttle.py:31,38,57: the 1.0 s horizon of requests_last_second
SecondWindowSeconds == 1
\* throttle.py:32,47,61: the 60.0 s horizon of requests_last_minute
MinuteWindowSeconds == 60
\* throttle.py:21-22: deque(maxlen=int(max * 2))
MaxLenFactor == 2
\* metrics.py:67: response_times = deque(maxlen=1000)
ResponseTimesMaxLen == 1000
\* metrics.py:29: success_rate >= 0.95, in percent
HealthyRatePercent == 95

SecondWindow == SecondWindowSeconds * TicksPerSecond
MinuteWindow == MinuteWindowSeconds * TicksPerSecond

Tasks == 1..NumTasks
NoTask == 0

\* ThrottleConfig: the caps a RateLimiter is constructed with.
Configs ==
    { [max_requests_per_second |-> s, max_requests_per_minute |-> m] :
        s \in (MaxPerSecond - 1)..MaxPerSecond,
        m \in (MaxPerMinute - 1)..MaxPerMinute }

\* How far time.time() may move between two steps of the tasks: a tick, a
\* second, and just under a minute (so that exactly a minute is reachable too).
AdvanceSteps == {1, TicksPerSecond, MinuteWindow - TicksPerSecond}
\* The same for the breaker, whose only horizon is recovery_timeout.
BreakerAdvanceSteps == {1, TicksPerSecond}

VARIABLES
    clock,                  \* time.time(), in ticks
    advances,               \* how many times the clock has moved (bounded)
    config,                 \* RateLimiter.config
    requests_last_second,   \* RateLimiter.requests_last_second (oldest first)
    requests_last_minute,   \* RateLimiter.requests_last_minute (oldest first)
    lock_holder,            \* RateLimiter._lock: the task inside `async with`, NoTask when unlocked
    lock_waiters,           \* RateLimiter._lock._waiters: tasks suspended in _lock.acquire(), FIFO
    pc,                     \* where each task is in RateLimiter.acquire
    wait_arg,               \* the `wait` argument of each task's outer acquire call
    wake,                   \* when a sleeping task's asyncio.sleep ends
    result,                 \* what each task's acquire returned ("none" before it returns)
    grants,                 \* history: the timestamps of all calls that returned True
    failure_threshold,      \* CircuitBreaker.failure_threshold
    recovery_timeout,       \* CircuitBreaker.recovery_timeout, in ticks
    state,                  \* CircuitBreaker.state
    failure_count,          \* CircuitBreaker.failure_count
    last_failure_time,      \* CircuitBreaker.last_failure_time (NoTime for None)
    cb_pc,                  \* where each task is in CircuitBreaker.call
    cb_outcome,             \* how each task's call() ended ("none" before it ends)
    cb_raised,              \* the class of the exception call() raised to the task ("none": nothing raised)
    is_trial,               \* history: this call moved the breaker to HalfOpen
    streak,                 \* history: counted failures since the last success
    trial_taken,            \* history: a call was let through in this HalfOpen period
    second_trial,           \* history: a further call was let through in the same period
    is_degraded,            \* ThrottleManager.is_degraded
    rate_limiters,          \* ThrottleManager.rate_limiters: operation class -> its RateLimiter
    was_degraded,           \* history: enable_degraded_mode has taken effect at least once
    last_call,              \* history: the last call made on the ThrottleManager, with its result
    mgr_calls,              \* how many times ThrottleManager.acquire was called (bounded)
    mgr_grants,             \* history: operation class -> the times at which its acquires returned True
    mgr_mark,               \* history: operation class -> how many of mgr_grants its replaced limiters made
    rm_is_degraded,         \* ResourceMonitor.is_degraded
    rm_pc,                  \* where the monitor task is in _monitor_loop
    rm_memory,              \* memory_mb of the check in progress or last made
    rm_cpu,                 \* cpu_percent of the last check
    rm_check_call,          \* history: what the last check called on the ThrottleManager
    rm_last_call,           \* history: the last call any check made on the ThrottleManager
    rm_reported,            \* what the last should_throttle() returned (<<>>: not called)
    request_types,          \* MetricsCollector.request_types: operation class -> RequestMetrics
    response_times,         \* MetricsCollector.response_times (oldest first)
    recorded,               \* history: the duration of every record_request call, in order
    percentiles,            \* what the last get_response_time_percentiles() returned (<<>>: not called)
    services,               \* MetricsCollector.services: dependency -> ServiceStatus
    last_op,                \* history: the last record_service_call made, with its arguments
    health_report,          \* what the last get_overall_health() returned ("none": not called)
    met_calls,              \* how many record_* calls were made (bounded)
    trk_pc,                 \* where each task is in the track_request wrapper
    trk_start,              \* start_time of each task's wrapper
    trk_acquired,           \* history: what throttle.acquire returned to each task's wrapper
    trk_body,               \* history: how each task's handler ended ("none" before it ends)
    trk_records,            \* history: how many record_request calls each task's wrapper made
    trk_delivered,          \* what each task's wrapper handed to its caller ("none" before it ends)
    hm_cached_health,       \* HealthMonitor._cached_health: dependency -> record (empty before a check)
    hm_last_health_check,   \* HealthMonitor._last_health_check (NoTime for None)
    hm_pc,                  \* where each task is in check_all_services
    hm_now,                 \* `now` of each task's check_all_services call
    hm_seq,                 \* history: the rank, in start order, of each task's probing check
    hm_checks,              \* how many checks have started their probes (bounded)
    hm_call,                \* history: the last check_all_services call, <<task, force, cached>>
    hm_probed,              \* history: how the probes of the last completed check ended
    hm_returned,            \* what the last check_all_services call to return handed back
    hm_cache_seq,           \* history: the rank of the check that stored _cached_health
    hm_done_seq,            \* history: the highest rank among the completed checks
    hm_done_now,            \* history: `now` of the completed check of the highest rank
    mc_task,                \* MetricsCollector._cpu_monitor_task: "none", where the loop waits, or "done"
    mc_cancel,              \* cancel() was called on the metrics task and is not yet delivered
    mc_stop,                \* where the caller of MetricsCollector.stop() is
    mc_hit,                 \* history: where the cancellation reached the metrics loop
    cpu_samples,            \* MetricsCollector.cpu_samples (oldest first)
    memory_samples,         \* MetricsCollector.memory_samples (oldest first)
    rm_task,                \* ResourceMonitor._monitor_task: "none", "running" or "done"
    rm_cancel,              \* cancel() was called on the monitor task and is not yet delivered
    rm_stop,                \* where the caller of ResourceMonitor.stop_monitoring() is
    rm_hit,                 \* history: where the cancellation reached the monitor loop
    cl_op,                  \* the operation class of each task's ThrottleManager.acquire ("none" outside)
    cl_lock_holder,         \* operation class -> the task inside its limiter's `async with`, or NoTask
    cl_lock_waiters,        \* operation class -> the tasks suspended in its limiter's _lock.acquire(), FIFO
    cl_shadowed             \* history: the task's call was made while another class's lock was held

rlvars == <<config, requests_last_second, requests_last_minute, lock_holder,
            lock_waiters, pc, wait_arg, wake, result, grants>>
cbvars == <<failure_threshold, recovery_timeout, state, failure_count,
            last_failure_time, cb_pc, cb_outcome, cb_raised, is_trial, streak,
            trial_taken, second_trial>>
timevars == <<clock, advances>>
mgrvars == <<is_degraded, rate_limiters, was_degraded, last_call, mgr_calls, mgr_grants,
             mgr_mark>>
monvars == <<rm_is_degraded, rm_pc, rm_memory, rm_cpu, rm_check_call, rm_last_call,
             rm_reported>>
reqvars == <<request_types, response_times, recorded, percentiles>>
svcvars == <<services, last_op, health_report>>
metvars == <<reqvars, svcvars, met_calls>>
trkvars == <<trk_pc, trk_start, trk_acquired, trk_body, trk_records, trk_delivered>>
hmvars == <<hm_cached_health, hm_last_health_check, hm_pc, hm_now, hm_seq, hm_checks,
            hm_call, hm_probed, hm_returned, hm_cache_seq, hm_done_seq, hm_done_now>>
bgvars == <<mc_task, mc_cancel, mc_stop, mc_hit, cpu_samples, memory_samples, rm_task,
            rm_cancel, rm_stop, rm_hit>>
clsvars == <<cl_op, cl_lock_holder, cl_lock_waiters, cl_shadowed>>
\* the service layer outside the throttling path, and the per-class callers
restvars == <<hmvars, bgvars, clsvars>>
\* what the limiter and the breaker of the first two parts leave alone
extvars == <<mgrvars, monvars, metvars, trkvars, restvars>>

\* ------------------------------------------------------------ RateLimiter

\* deque.popleft() while the head is older than the cutoff (throttle.py:56-63)
RECURSIVE DropOlder(_, _)
DropOlder(q, cutoff) ==
    IF q # <<>> /\ Head(q) < cutoff THEN DropOlder(Tail(q), cutoff) ELSE q

\* sum(1 for t in q if now - t < window)
CountWithin(q, now, window) ==
    Cardinality({i \in DOMAIN q : now - q[i] < window})

\* deque(maxlen=int(cap * 2))
MaxLen(cap) == cap * MaxLenFactor

\* deque.append on a bounded deque: a full deque discards its oldest item
DequeAppend(q, x, maxlen) ==
    LET a == Append(q, x)
    IN  IF Len(a) > maxlen THEN Tail(a) ELSE a

\* the limit tests of lines 34 and 43
\* (faulty variant: a strict comparison lets one grant too many through)
LimitHitMut(count, cap) == count > cap
LimitHit(count, cap) == count >= cap

\* _cleanup_old_requests: the cutoffs of the two queues
CleanupSecond(q, now) == DropOlder(q, now - SecondWindow)
\* (faulty variant: the minute queue pruned with the second's cutoff)
CleanupMinuteMut(q, now) == DropOlder(q, now - SecondWindow)
CleanupMinute(q, now) == DropOlder(q, now - MinuteWindow)

\* `async with self._lock` exit: Lock.release().
ReleaseLock == lock_holder' = NoTask

\* Lines 27-54, run by task t holding the lock, with the given `wait`.
CriticalSection(t, w) ==
    LET now == clock
        sec == CleanupSecond(requests_last_second, now)
        min == CleanupMinute(requests_last_minute, now)
        second_count == CountWithin(sec, now, SecondWindow)
        minute_count == CountWithin(min, now, MinuteWindow)
    IN  IF LimitHit(second_count, config.max_requests_per_second)
        THEN /\ requests_last_second' = sec
             /\ requests_last_minute' = min
             /\ grants' = grants
             /\ IF ~w
                THEN /\ result' = [result EXCEPT ![t] = "false"]
                     /\ pc' = [pc EXCEPT ![t] = "returned"]
                     /\ wake' = wake
                     /\ ReleaseLock
                ELSE \* await asyncio.sleep(wait_time), inside `async with`
                     /\ wake' = [wake EXCEPT ![t] = now + (SecondWindow - (now - Head(sec)))]
                     /\ pc' = [pc EXCEPT ![t] = "sleeping"]
                     /\ result' = result
                     /\ lock_holder' = t
        ELSE IF LimitHit(minute_count, config.max_requests_per_minute)
        THEN /\ requests_last_second' = sec
             /\ requests_last_minute' = min
             /\ grants' = grants
             /\ IF ~w
                THEN /\ result' = [result EXCEPT ![t] = "false"]
                     /\ pc' = [pc EXCEPT ![t] = "returned"]
                     /\ wake' = wake
                     /\ ReleaseLock
                ELSE /\ wake' = [wake EXCEPT ![t] = now + (MinuteWindow - (now - Head(min)))]
                     /\ pc' = [pc EXCEPT ![t] = "sleeping"]
                     /\ result' = result
                     /\ lock_holder' = t
        ELSE /\ requests_last_second' =
                    DequeAppend(sec, now, MaxLen(config.max_requests_per_second))
             /\ requests_last_minute' =
                    DequeAppend(min, now, MaxLen(config.max_requests_per_minute))
             /\ grants' = Append(grants, now)
             /\ result' = [result EXCEPT ![t] = "true"]
             /\ pc' = [pc EXCEPT ![t] = "returned"]
             /\ wake' = wake
             /\ ReleaseLock

\* The history keeps the grants less than a minute old: the only ones a trailing
\* window of either horizon can hold.
Recent(h, now) == SelectSeq(h, LAMBDA g : now - g < MinuteWindow)

\* Lock.acquire() takes the lock at once only when it is unlocked and nobody waits.
LockFree == lock_holder = NoTask /\ lock_waiters = <<>>

\* acquire(wait=w) called by task t, up to its return or first suspension.
AcquireStep(t, w) ==
    /\ pc[t] = "idle"
    /\ wait_arg' = [wait_arg EXCEPT ![t] = w]
    /\ IF LockFree
       THEN /\ CriticalSection(t, w)
            /\ lock_waiters' = lock_waiters
       ELSE /\ lock_waiters' = Append(lock_waiters, t)
            /\ pc' = [pc EXCEPT ![t] = "lock_wait"]
            /\ UNCHANGED <<requests_last_second, requests_last_minute, lock_holder,
                           wake, result, grants>>

\* A task calls acquire(wait=w).
Acquire(t, w) ==
    /\ AcquireStep(t, w)
    /\ UNCHANGED <<config, timevars, cbvars, extvars>>

\* asyncio.sleep(wait_time) is over: `return await self.acquire(wait=False)`, still
\* inside the outer `async with self._lock`.  asyncio.Lock is not reentrant: the
\* nested `async with self._lock` finds the lock taken and waits for it.
SleepDone(t) ==
    /\ pc[t] = "sleeping"
    /\ clock >= wake[t]
    /\ IF LockFree
       THEN /\ CriticalSection(t, FALSE)
            /\ lock_waiters' = lock_waiters
       ELSE /\ lock_waiters' = Append(lock_waiters, t)
            /\ pc' = [pc EXCEPT ![t] = "retry_wait"]
            /\ UNCHANGED <<requests_last_second, requests_last_minute, lock_holder,
                           wake, result, grants>>
    /\ UNCHANGED <<config, wait_arg, timevars, cbvars, extvars>>

\* acquire has returned to the caller of task t.
ReturnedStep(t) ==
    /\ pc[t] = "returned"
    /\ pc' = [pc EXCEPT ![t] = "idle"]
    /\ result' = [result EXCEPT ![t] = "none"]
    /\ wait_arg' = [wait_arg EXCEPT ![t] = FALSE]
    /\ UNCHANGED <<config, requests_last_second, requests_last_minute, lock_holder,
                   lock_waiters, wake, grants>>

\* The caller has the returned value and may call again.
Returned(t) ==
    /\ ReturnedStep(t)
    /\ UNCHANGED <<timevars, cbvars, extvars>>

\* time.time() moves on.
Advance(d) ==
    /\ advances < MaxAdvances
    /\ clock' = clock + d
    /\ advances' = advances + 1
    /\ grants' = Recent(grants, clock')
    /\ UNCHANGED <<config, requests_last_second, requests_last_minute, lock_holder,
                   lock_waiters, pc, wait_arg, wake, result, cbvars, extvars>>


\* --------------------------------------------------------- CircuitBreaker

NoTime == -1

\* What the wrapped operation can raise: an error of the configured
\* expected_exception category, or one of another category.
Errors == {"expected_error", "other_error"}

\* The exception classes the model tells apart, each with its base class.
ExceptionClasses == {"BaseException", "Exception", "ValueError", "CancelledError"}
BaseOf(c) ==
    CASE c = "ValueError" -> "Exception"
      [] c = "Exception" -> "BaseException"
      [] c = "CancelledError" -> "BaseException"
      [] OTHER -> "BaseException"

\* isinstance(<an instance of c>, h): `except h` catches an exception of class c
IsInstance(c, h) == h \in {c, BaseOf(c), BaseOf(BaseOf(c))}

\* expected_exception: type = Exception (circuit_breaker.py:20), the category of
\* both module-level breakers (lines 63-64)
ExpectedException == "Exception"

\* The classes an error of category e can have.
ClassesOf(e) ==
    { c \in ExceptionClasses \ {"BaseException"} :
        IsInstance(c, ExpectedException) <=> (e = "expected_error") }

\* raise Exception("Circuit breaker is OPEN, request blocked") (line 35)
RejectionClass == "Exception"

\* `except self.expected_exception` (circuit_breaker.py:41)
\* (faulty variant: a bare `except Exception`)
CaughtMut(e) == TRUE
Caught(e) == e = "expected_error"

\* time.time() - self.last_failure_time >= self.recovery_timeout (line 31)
\* (faulty variant: the timeout taken one tick short)
RecoveryDueEarly(now) == now - last_failure_time >= recovery_timeout - 1
RecoveryDue(now) == now - last_failure_time >= recovery_timeout

\* _on_success (lines 45-49): the new failure_count and state
OnSuccessCount == 0
\* (faulty variant: a success never closes the breaker)
OnSuccessStateMut == state
OnSuccessState == IF state = "half_open" THEN "closed" ELSE state

\* _on_failure (lines 51-57): the new failure_count and state
OnFailureCount == failure_count + 1
\* (faulty variant: a strict comparison opens one failure late)
OnFailureStateMut == IF OnFailureCount > failure_threshold THEN "open" ELSE state
OnFailureState == IF OnFailureCount >= failure_threshold THEN "open" ELSE state

\* The history of the HalfOpen period ends when the breaker leaves HalfOpen.
TrialHistory(newState, taken, second) ==
    /\ trial_taken' = (newState = "half_open" /\ taken)
    /\ second_trial' = (newState = "half_open" /\ second)

\* call(), lines 30-38: the gate, up to `await func(...)`.
Call(t) ==
    /\ cb_pc[t] = "idle"
    /\ IF state = "open"
       THEN IF RecoveryDue(clock)
            THEN /\ state' = "half_open"
                 /\ cb_pc' = [cb_pc EXCEPT ![t] = "in_func"]
                 /\ cb_outcome' = cb_outcome
                 /\ cb_raised' = cb_raised
                 /\ is_trial' = [is_trial EXCEPT ![t] = TRUE]
                 /\ trial_taken' = TRUE
                 /\ second_trial' = FALSE
            ELSE \* raise Exception("Circuit breaker is OPEN, request blocked")
                 /\ state' = state
                 /\ cb_pc' = [cb_pc EXCEPT ![t] = "done"]
                 /\ cb_outcome' = [cb_outcome EXCEPT ![t] = "rejected"]
                 /\ cb_raised' = [cb_raised EXCEPT ![t] = RejectionClass]
                 /\ UNCHANGED <<is_trial, trial_taken, second_trial>>
       ELSE /\ state' = state
            /\ cb_pc' = [cb_pc EXCEPT ![t] = "in_func"]
            /\ cb_outcome' = cb_outcome
            /\ cb_raised' = cb_raised
            /\ is_trial' = is_trial
            /\ trial_taken' = (state = "half_open")
            /\ second_trial' = (state = "half_open" /\ trial_taken)
    /\ UNCHANGED <<failure_threshold, recovery_timeout, failure_count,
                   last_failure_time, streak, timevars, rlvars, extvars>>

\* The wrapped operation returns: _on_success(), `return result` (lines 39-40).
FuncReturns(t) ==
    /\ cb_pc[t] = "in_func"
    /\ failure_count' = OnSuccessCount
    /\ state' = OnSuccessState
    /\ streak' = 0
    /\ TrialHistory(state', trial_taken, second_trial)
    /\ cb_pc' = [cb_pc EXCEPT ![t] = "done"]
    /\ cb_outcome' = [cb_outcome EXCEPT ![t] = "succeeded"]
    /\ UNCHANGED <<failure_threshold, recovery_timeout, last_failure_time, is_trial,
                   cb_raised, timevars, rlvars, extvars>>

\* The wrapped operation raises an error of category e: _on_failure() and
\* `raise e` when it is of the expected category (lines 41-43); any other error
\* leaves call() as it is.  Either way the caller gets the error's own class.
FuncRaises(t, e) ==
    /\ cb_pc[t] = "in_func"
    /\ IF Caught(e)
       THEN /\ failure_count' = OnFailureCount
            /\ last_failure_time' = clock
            /\ state' = OnFailureState
            /\ streak' = streak + 1
       ELSE UNCHANGED <<failure_count, last_failure_time, state, streak>>
    /\ TrialHistory(state', trial_taken, second_trial)
    /\ cb_pc' = [cb_pc EXCEPT ![t] = "done"]
    /\ cb_outcome' = [cb_outcome EXCEPT ![t] = e]
    /\ \E c \in ClassesOf(e) : cb_raised' = [cb_raised EXCEPT ![t] = c]
    /\ UNCHANGED <<failure_threshold, recovery_timeout, is_trial, timevars, rlvars, extvars>>

\* The caller has the outcome and may call again.
CallEnded(t) ==
    /\ cb_pc[t] = "done"
    /\ cb_pc' = [cb_pc EXCEPT ![t] = "idle"]
    /\ cb_outcome' = [cb_outcome EXCEPT ![t] = "none"]
    /\ cb_raised' = [cb_raised EXCEPT ![t] = "none"]
    /\ is_trial' = [is_trial EXCEPT ![t] = FALSE]
    /\ UNCHANGED <<failure_threshold, recovery_timeout, state, failure_count,
                   last_failure_time, streak, trial_taken, second_trial, timevars,
                   rlvars, extvars>>

\* The dependency is down until RecoveredAt: only before that time does the
\* wrapped operation raise an error of the expected category.
FuncRaisesWhileDown(t) ==
    /\ clock < RecoveredAt
    /\ FuncRaises(t, "expected_error")

\* time.time() moves on by one tick.  Past RecoveredAt + recovery_timeout
\* every last_failure_time is at least recovery_timeout old and stays so:
\* line 31 gives the same answer at any later time, so the clock is followed
\* no further.
Tick ==
    /\ clock < RecoveredAt + recovery_timeout
    /\ clock' = clock + 1
    /\ advances' = advances + 1
    /\ UNCHANGED <<rlvars, cbvars, extvars>>

\* -------------------------------------------------------- ThrottleManager

\* the keys of ThrottleManager.rate_limiters (throttle.py:80-86)
OperationTypes == {"voice", "text", "callback", "ai", "sheets"}
\* what callers pass as operation_type: a class of the manager, or another name
OperationArgs == OperationTypes \cup {"unknown"}

\* _normal_config and _degraded_config (throttle.py:69-78)
NormalConfig ==
    [max_requests_per_second |-> 10, max_requests_per_minute |-> 100, burst_size |-> 5]
DegradedConfig ==
    [max_requests_per_second |-> 2, max_requests_per_minute |-> 30, burst_size |-> 2]

\* RateLimiter(cfg): a new limiter, its queues empty (throttle.py:19-23)
NewLimiter(cfg) ==
    [config |-> cfg, requests_last_second |-> <<>>, requests_last_minute |-> <<>>]

\* RateLimiter.acquire(wait=False) on limiter l at time now (throttle.py:25-54):
\* the limiter afterwards and the value returned.  Nothing in it suspends, so it
\* runs as one step.
AcquireNoWait(l, now) ==
    LET sec == CleanupSecond(l.requests_last_second, now)
        min == CleanupMinute(l.requests_last_minute, now)
        pruned == [l EXCEPT !.requests_last_second = sec, !.requests_last_minute = min]
    IN  IF \/ LimitHit(CountWithin(sec, now, SecondWindow), l.config.max_requests_per_second)
           \/ LimitHit(CountWithin(min, now, MinuteWindow), l.config.max_requests_per_minute)
        THEN [limiter |-> pruned, granted |-> FALSE]
        ELSE [limiter |->
                [pruned EXCEPT
                    !.requests_last_second =
                        DequeAppend(sec, now, MaxLen(l.config.max_requests_per_second)),
                    !.requests_last_minute =
                        DequeAppend(min, now, MaxLen(l.config.max_requests_per_minute))],
              granted |-> TRUE]

\* `if self.is_degraded: return` (throttle.py:89-90)
\* (faulty variant: the guard left out)
EnableIsNoOpMut == FALSE
EnableIsNoOp == is_degraded

\* `if not self.is_degraded: return` (throttle.py:99-100)
\* (faulty variant: the call never takes effect)
DisableIsNoOpMut == TRUE
DisableIsNoOp == ~is_degraded

\* the limiters after the loop of lines 95-96 / 105-106
\* (faulty variant: the loop misses a class)
ReplacedLimitersMut(cfg) ==
    [op \in OperationTypes |->
        IF op = "sheets" THEN rate_limiters[op] ELSE NewLimiter(cfg)]
ReplacedLimiters(cfg) == [op \in OperationTypes |-> NewLimiter(cfg)]

\* enable_degraded_mode() (throttle.py:88-96), without the history variables
EnableDegradedMode ==
    IF EnableIsNoOp
    THEN UNCHANGED <<is_degraded, rate_limiters, was_degraded, mgr_mark>>
    ELSE /\ is_degraded' = TRUE
         /\ rate_limiters' = ReplacedLimiters(DegradedConfig)
         /\ was_degraded' = TRUE
         /\ mgr_mark' = [op \in OperationTypes |-> Len(mgr_grants[op])]

\* disable_degraded_mode() (throttle.py:98-106)
DisableDegradedMode ==
    IF DisableIsNoOp
    THEN UNCHANGED <<is_degraded, rate_limiters, was_degraded, mgr_mark>>
    ELSE /\ is_degraded' = FALSE
         /\ rate_limiters' = ReplacedLimiters(NormalConfig)
         /\ was_degraded' = was_degraded
         /\ mgr_mark' = [op \in OperationTypes |-> Len(mgr_grants[op])]

\* Some caller calls enable_degraded_mode().
ManagerEnable ==
    /\ EnableDegradedMode
    /\ last_call' = <<"enable">>
    /\ UNCHANGED <<mgr_calls, mgr_grants, monvars, metvars, trkvars, timevars, rlvars,
                   cbvars, restvars>>

\* Some caller calls disable_degraded_mode().
ManagerDisable ==
    /\ DisableDegradedMode
    /\ last_call' = <<"disable">>
    /\ UNCHANGED <<mgr_calls, mgr_grants, monvars, metvars, trkvars, timevars, rlvars,
                   cbvars, restvars>>

\* ThrottleManager.acquire(op, wait=False) (throttle.py:108-114): a name that is
\* not a class of the manager is let through, any other call is the acquire of
\* the class's current limiter.
ManagerAcquire(op) ==
    /\ mgr_calls < MaxManagerCalls
    /\ mgr_calls' = mgr_calls + 1
    /\ IF op \notin DOMAIN rate_limiters
       THEN /\ last_call' = <<"acquire", op, TRUE>>
            /\ UNCHANGED <<rate_limiters, mgr_grants>>
       ELSE LET r == AcquireNoWait(rate_limiters[op], clock)
            IN  /\ rate_limiters' = [rate_limiters EXCEPT ![op] = r.limiter]
                /\ last_call' = <<"acquire", op, r.granted>>
                /\ mgr_grants' =
                        IF r.granted
                        THEN [mgr_grants EXCEPT ![op] = Append(@, clock)]
                        ELSE mgr_grants
    /\ UNCHANGED <<is_degraded, was_degraded, mgr_mark, monvars, metvars, trkvars,
                   timevars, rlvars, cbvars, restvars>>

\* RateLimiter.acquire(wait=w) on limiter l at time now, by a task that holds
\* the limiter's lock (throttle.py:27-54): the limiter afterwards and how the
\* section ends - it returns True or False, or it sleeps until `wake` with the
\* lock held.
SectionOf(l, w, now) ==
    LET r == AcquireNoWait(l, now)
        sec == r.limiter.requests_last_second
        min == r.limiter.requests_last_minute
    IN  IF r.granted
        THEN [limiter |-> r.limiter, outcome |-> "true", wake |-> 0]
        ELSE IF ~w
        THEN [limiter |-> r.limiter, outcome |-> "false", wake |-> 0]
        ELSE IF LimitHit(CountWithin(sec, now, SecondWindow),
                         l.config.max_requests_per_second)
        THEN [limiter |-> r.limiter, outcome |-> "sleep",
              wake |-> now + (SecondWindow - (now - Head(sec)))]
        ELSE [limiter |-> r.limiter, outcome |-> "sleep",
              wake |-> now + (MinuteWindow - (now - Head(min)))]

\* `async with self._lock` of class op's limiter is entered at once only when
\* that lock is unlocked and nobody waits for it (throttle.py:23, 26)
\* (faulty variant: one lock shared by the limiters of all classes)
ClassLockFreeMut(op) ==
    \A o \in OperationTypes : cl_lock_holder[o] = NoTask /\ cl_lock_waiters[o] = <<>>
ClassLockFree(op) == cl_lock_holder[op] = NoTask /\ cl_lock_waiters[op] = <<>>

\* Task t, holding the lock of class op's limiter, runs lines 27-54 with `wait` w.
ClassSection(t, op, w) ==
    LET r == SectionOf(rate_limiters[op], w, clock)
    IN  /\ rate_limiters' = [rate_limiters EXCEPT ![op] = r.limiter]
        /\ IF r.outcome = "sleep"
           THEN /\ pc' = [pc EXCEPT ![t] = "sleeping"]
                /\ wake' = [wake EXCEPT ![t] = r.wake]
                /\ result' = result
                /\ cl_lock_holder' = [cl_lock_holder EXCEPT ![op] = t]
                /\ mgr_grants' = mgr_grants
           ELSE /\ pc' = [pc EXCEPT ![t] = "returned"]
                /\ wake' = wake
                /\ result' = [result EXCEPT ![t] = r.outcome]
                /\ cl_lock_holder' = [cl_lock_holder EXCEPT ![op] = NoTask]
                /\ mgr_grants' =
                        IF r.outcome = "true"
                        THEN [mgr_grants EXCEPT ![op] = Append(@, clock)]
                        ELSE mgr_grants

\* Task t calls ThrottleManager.acquire(op, wait=w) (throttle.py:108-114), up to
\* its return or first suspension: in the lock's queue, or asleep in the wait
\* path with the lock held.
ClassAcquire(t, op, w) ==
    /\ pc[t] = "idle"
    /\ mgr_calls < MaxManagerCalls
    /\ mgr_calls' = mgr_calls + 1
    /\ wait_arg' = [wait_arg EXCEPT ![t] = w]
    /\ last_call' = <<"acquire", op, w>>
    /\ cl_shadowed' =
            [cl_shadowed EXCEPT
                ![t] = \E o \in OperationTypes \ {op} : cl_lock_holder[o] # NoTask]
    /\ IF op \notin DOMAIN rate_limiters
       THEN /\ cl_op' = [cl_op EXCEPT ![t] = "none"]
            /\ pc' = [pc EXCEPT ![t] = "returned"]
            /\ result' = [result EXCEPT ![t] = "true"]
            /\ UNCHANGED <<rate_limiters, mgr_grants, wake, cl_lock_holder,
                           cl_lock_waiters>>
       ELSE /\ cl_op' = [cl_op EXCEPT ![t] = op]
            /\ IF ClassLockFree(op)
               THEN /\ ClassSection(t, op, w)
                    /\ cl_lock_waiters' = cl_lock_waiters
               ELSE /\ cl_lock_waiters' = [cl_lock_waiters EXCEPT ![op] = Append(@, t)]
                    /\ pc' = [pc EXCEPT ![t] = "lock_wait"]
                    /\ UNCHANGED <<rate_limiters, mgr_grants, wake, result,
                                   cl_lock_holder>>
    /\ UNCHANGED <<is_degraded, was_degraded, mgr_mark, config, requests_last_second,
                   requests_last_minute, lock_holder, lock_waiters, grants, hmvars,
                   bgvars, monvars, metvars, trkvars, timevars, cbvars>>

\* asyncio.sleep(wait_time) of task t is over: `return await
\* self.acquire(wait=False)` on the same limiter, still inside the outer
\* `async with`: the nested `async with self._lock` finds the lock taken.
ClassSleepDone(t) ==
    /\ pc[t] = "sleeping"
    /\ cl_op[t] \in OperationTypes
    /\ clock >= wake[t]
    /\ IF ClassLockFree(cl_op[t])
       THEN /\ ClassSection(t, cl_op[t], FALSE)
            /\ cl_lock_waiters' = cl_lock_waiters
       ELSE /\ cl_lock_waiters' = [cl_lock_waiters EXCEPT ![cl_op[t]] = Append(@, t)]
            /\ pc' = [pc EXCEPT ![t] = "retry_wait"]
            /\ UNCHANGED <<rate_limiters, mgr_grants, wake, result, cl_lock_holder>>
    /\ UNCHANGED <<is_degraded, was_degraded, mgr_mark, mgr_calls, last_call, wait_arg,
                   cl_op, cl_shadowed, config, requests_last_second,
                   requests_last_minute, lock_holder, lock_waiters, grants, hmvars,
                   bgvars, monvars, metvars, trkvars, timevars, cbvars>>

\* ThrottleManager.acquire has returned to the caller of task t.
ClassReturned(t) ==
    /\ pc[t] = "returned"
    /\ pc' = [pc EXCEPT ![t] = "idle"]
    /\ result' = [result EXCEPT ![t] = "none"]
    /\ wait_arg' = [wait_arg EXCEPT ![t] = FALSE]
    /\ cl_op' = [cl_op EXCEPT ![t] = "none"]
    /\ cl_shadowed' = [cl_shadowed EXCEPT ![t] = FALSE]
    /\ UNCHANGED <<mgrvars, cl_lock_holder, cl_lock_waiters, wake, config,
                   requests_last_second, requests_last_minute, lock_holder,
                   lock_waiters, grants, hmvars, bgvars, monvars, metvars, trkvars,
                   timevars, cbvars>>

\* -------------------------------------------------------- ResourceMonitor

\* ResourceMonitor(memory_threshold_mb=400, cpu_threshold_percent=75.0)
\* (resource_monitor.py:95)
MemoryThresholdMb == 400
CpuThresholdPercent == 75

\* what psutil can report: below, at and above each threshold
MemorySamples == (MemoryThresholdMb - 1)..(MemoryThresholdMb + 1)
CpuSamples == (CpuThresholdPercent - 1)..(CpuThresholdPercent + 1)

\* should_degrade after lines 56-68
\* (faulty variant: the thresholds themselves count as high)
ShouldDegradeMut(memory_mb, cpu_percent) ==
    memory_mb >= MemoryThresholdMb \/ cpu_percent >= CpuThresholdPercent
ShouldDegrade(memory_mb, cpu_percent) ==
    memory_mb > MemoryThresholdMb \/ cpu_percent > CpuThresholdPercent

\* _monitor_loop: asyncio.sleep(check_interval) is over and _check_resources
\* starts: memory is read and cpu_percent is handed to the executor (lines 40-52).
\* check_interval is longer than the window of time the model covers, so the
\* moment of a check is left free.
MonitorSample(memory_mb) ==
    /\ rm_pc = "sleeping"
    /\ rm_pc' = "sampling"
    /\ rm_memory' = memory_mb
    /\ UNCHANGED <<rm_is_degraded, rm_cpu, rm_check_call, rm_last_call, rm_reported,
                   mgrvars, metvars, trkvars, timevars, rlvars, cbvars, restvars>>

\* The executor delivers cpu_percent: the decision, the garbage collection and
\* the mode switch of lines 54-80 run without suspending; the loop sleeps again.
MonitorDecide(cpu_percent) ==
    /\ rm_pc = "sampling"
    /\ rm_pc' = "sleeping"
    /\ rm_cpu' = cpu_percent
    /\ LET should_degrade == ShouldDegrade(rm_memory, cpu_percent)
       IN  IF should_degrade /\ ~rm_is_degraded
           THEN /\ EnableDegradedMode
                /\ last_call' = <<"enable">>
                /\ rm_is_degraded' = TRUE
                /\ rm_check_call' = "enable"
                /\ rm_last_call' = "enable"
           ELSE IF ~should_degrade /\ rm_is_degraded
           THEN /\ DisableDegradedMode
                /\ last_call' = <<"disable">>
                /\ rm_is_degraded' = FALSE
                /\ rm_check_call' = "disable"
                /\ rm_last_call' = "disable"
           ELSE /\ rm_check_call' = "none"
                /\ UNCHANGED <<rm_is_degraded, rm_last_call, is_degraded,
                               rate_limiters, was_degraded, last_call, mgr_mark>>
    /\ UNCHANGED <<rm_memory, rm_reported, mgr_calls, mgr_grants, metvars, trkvars, timevars, rlvars,
                   cbvars, restvars>>

\* psutil raises while the check samples: _check_resources ends there, the loop
\* logs the error and sleeps again (lines 44-45).
MonitorCheckFails ==
    /\ rm_pc = "sampling"
    /\ rm_pc' = "sleeping"
    /\ rm_check_call' = "none"
    /\ UNCHANGED <<rm_is_degraded, rm_memory, rm_cpu, rm_last_call, rm_reported,
                   mgrvars, metvars, trkvars, timevars, rlvars, cbvars, restvars>>

\* should_throttle() (resource_monitor.py:91-92), called by the admin and health
\* pages: the stored flag is returned.
ShouldThrottle ==
    /\ rm_reported' = <<rm_is_degraded>>
    /\ UNCHANGED <<rm_is_degraded, rm_pc, rm_memory, rm_cpu, rm_check_call,
                   rm_last_call, mgrvars, metvars, trkvars, timevars, rlvars, cbvars, restvars>>

\* ------------------------------------------------------- MetricsCollector

\* the keys of MetricsCollector.services (metrics.py:58-63)
ServiceNames == {"yandex_gpt", "yandex_stt", "google_sheets", "telegram"}
\* what callers pass as service: a registered dependency, or another name
ServiceArgs == ServiceNames \cup {"unknown"}
\* what callers pass as request_type, duration, and error
RequestTypeArgs == {"text", "voice"}
DurationArgs == {0, 2 * ResponseTimesMaxLen}
ErrorArgs == {"timeout"}

\* RequestMetrics() and ServiceStatus() (metrics.py:14-43).  avg_response_time is
\* kept as response_time_sum / total_calls: the running mean of lines 137-142 is
\* the sum of the durations over their number.
NewRequestMetrics == [count |-> 0, success |-> 0, errors |-> 0, total_duration |-> 0]
NewServiceStatus ==
    [last_success |-> NoTime, last_failure |-> NoTime, total_calls |-> 0,
     success_calls |-> 0, failed_calls |-> 0, response_time_sum |-> 0,
     last_error |-> "none"]

\* self.request_types[request_type] on a defaultdict(RequestMetrics) (line 108)
RequestMetricsOf(request_type) ==
    IF request_type \in DOMAIN request_types
    THEN request_types[request_type]
    ELSE NewRequestMetrics

\* record_request, lines 109-115: the RequestMetrics afterwards
\* (faulty variant: a failed request counted as a success as well)
RequestAfterCallMut(metrics, duration, success) ==
    [metrics EXCEPT !.count = @ + 1,
                    !.total_duration = @ + duration,
                    !.success = @ + 1,
                    !.errors = IF success THEN @ ELSE @ + 1]
RequestAfterCall(metrics, duration, success) ==
    [metrics EXCEPT !.count = @ + 1,
                    !.total_duration = @ + duration,
                    !.success = IF success THEN @ + 1 ELSE @,
                    !.errors = IF success THEN @ ELSE @ + 1]

\* record_request (metrics.py:107-117)
RecordRequestEffect(request_type, duration, success) ==
    /\ request_types' =
            [k \in DOMAIN request_types \cup {request_type} |->
                IF k = request_type
                THEN RequestAfterCall(RequestMetricsOf(request_type), duration, success)
                ELSE request_types[k]]
    /\ response_times' = DequeAppend(response_times, duration, ResponseTimesMaxLen)
    /\ recorded' = Append(recorded, duration)
    /\ percentiles' = <<>>

\* int(count * pct) of lines 165-167, pct in percent: the float product of a
\* count up to 1000 and 0.50, 0.95 or 0.99 truncates to the exact floor.
\* (faulty variant: the rank taken one-based)
PercentileIndexMut(count, pct) ==
    IF count * pct < 100 THEN 0 ELSE (count * pct) \div 100 - 1
PercentileIndex(count, pct) == (count * pct) \div 100

\* get_response_time_percentiles (metrics.py:157-168): <<p50, p95, p99>>
ResponseTimePercentiles ==
    IF response_times = <<>>
    THEN <<0, 0, 0>>
    ELSE LET sorted_times == SortSeq(response_times, LAMBDA a, b : a < b)
             count == Len(sorted_times)
         IN  <<sorted_times[PercentileIndex(count, 50) + 1],
               sorted_times[PercentileIndex(count, 95) + 1],
               sorted_times[PercentileIndex(count, 99) + 1]>>

\* ServiceStatus.is_healthy (metrics.py:24-29)
\* (faulty variant: a rate of exactly 95% counted as unhealthy)
IsHealthyMut(status) ==
    IF status.total_calls = 0
    THEN TRUE
    ELSE status.success_calls * 100 > HealthyRatePercent * status.total_calls
IsHealthy(status) ==
    IF status.total_calls = 0
    THEN TRUE
    ELSE status.success_calls * 100 >= HealthyRatePercent * status.total_calls

\* get_overall_health (metrics.py:170-183)
OverallHealth ==
    LET unhealthy_services ==
            { name \in DOMAIN services :
                ~IsHealthy(services[name]) /\ services[name].total_calls > 0 }
    IN  IF unhealthy_services = {} THEN "healthy"
        ELSE IF Cardinality(unhealthy_services) >= 2 THEN "unhealthy"
        ELSE "degraded"

\* record_service_call, lines 126-142: the ServiceStatus afterwards
\* (faulty variant: a failure not added to failed_calls)
StatusAfterCallMut(status, success, duration, error, now) ==
    IF success
    THEN [status EXCEPT !.total_calls = @ + 1, !.success_calls = @ + 1,
                        !.last_success = now, !.response_time_sum = @ + duration]
    ELSE [status EXCEPT !.total_calls = @ + 1,
                        !.last_failure = now, !.last_error = error,
                        !.response_time_sum = @ + duration]
StatusAfterCall(status, success, duration, error, now) ==
    IF success
    THEN [status EXCEPT !.total_calls = @ + 1, !.success_calls = @ + 1,
                        !.last_success = now, !.response_time_sum = @ + duration]
    ELSE [status EXCEPT !.total_calls = @ + 1, !.failed_calls = @ + 1,
                        !.last_failure = now, !.last_error = error,
                        !.response_time_sum = @ + duration]

\* record_service_call (metrics.py:119-142): the services map afterwards
\* (faulty variant: an unregistered name given a ServiceStatus of its own)
ServicesAfterCallMut(service, success, duration, error, now) ==
    [n \in DOMAIN services \cup {service} |->
        IF n = service
        THEN StatusAfterCall(IF n \in DOMAIN services THEN services[n]
                                                      ELSE NewServiceStatus,
                             success, duration, error, now)
        ELSE services[n]]
ServicesAfterCall(service, success, duration, error, now) ==
    IF service \notin DOMAIN services
    THEN services
    ELSE [services EXCEPT
            ![service] = StatusAfterCall(@, success, duration, error, now)]

RecordServiceCallEffect(service, success, duration, error) ==
    /\ services' = ServicesAfterCall(service, success, duration, error, clock)
    /\ last_op' = <<service, success, duration>>
    /\ health_report' = "none"

\* Some caller calls record_request.
RecordRequest(request_type, duration, success) ==
    /\ met_calls < MaxMetricCalls
    /\ met_calls' = met_calls + 1
    /\ RecordRequestEffect(request_type, duration, success)
    /\ UNCHANGED <<svcvars, mgrvars, monvars, trkvars, timevars, rlvars, cbvars, restvars>>

\* Some caller calls get_response_time_percentiles.
GetResponseTimePercentiles ==
    /\ percentiles' = ResponseTimePercentiles
    /\ UNCHANGED <<request_types, response_times, recorded, svcvars, met_calls,
                   mgrvars, monvars, trkvars, timevars, rlvars, cbvars, restvars>>

\* Some caller calls record_service_call.
RecordServiceCall(service, success, duration, error) ==
    /\ met_calls < MaxMetricCalls
    /\ met_calls' = met_calls + 1
    /\ RecordServiceCallEffect(service, success, duration, error)
    /\ UNCHANGED <<reqvars, mgrvars, monvars, trkvars, timevars, rlvars, cbvars, restvars>>

\* Some caller calls get_overall_health.
GetOverallHealth ==
    /\ health_report' = OverallHealth
    /\ UNCHANGED <<services, last_op, reqvars, met_calls, mgrvars, monvars,
                   trkvars, timevars, rlvars, cbvars, restvars>>

\* ---------------------------------------------------------- track_request

\* @track_request("text", "yandex_gpt") (bot/handlers/text.py:95)
TrackRequestType == "text"
TrackService == "yandex_gpt"

\* the `wait` of `await throttle.acquire(request_type)` (metrics_decorator.py:21):
\* the default of ThrottleManager.acquire (throttle.py:108)
\* (faulty variant: the wrapper asks without waiting)
TrackWaitMut == FALSE
TrackWait == TRUE

\* A handler task, started for one update, enters the wrapper (lines 18-21):
\* throttle.acquire(request_type) is the acquire of the class's limiter, here the
\* RateLimiter of the first part.
TrackCall(t) ==
    /\ trk_pc[t] = "idle"
    /\ TrackRequestType \in OperationTypes
    /\ AcquireStep(t, TrackWait)
    /\ trk_pc' = [trk_pc EXCEPT ![t] = "acquiring"]
    /\ trk_acquired' = [trk_acquired EXCEPT ![t] = "none"]
    /\ UNCHANGED <<config, trk_start, trk_body, trk_records, trk_delivered, timevars,
                   cbvars, mgrvars, monvars, metvars, restvars>>

\* throttle.acquire has returned: the wrapper drops the value, takes start_time
\* and calls the handler (lines 21-28).
TrackBodyStarts(t) ==
    /\ trk_pc[t] = "acquiring"
    /\ ReturnedStep(t)
    /\ trk_pc' = [trk_pc EXCEPT ![t] = "in_func"]
    /\ trk_start' = [trk_start EXCEPT ![t] = clock]
    /\ trk_acquired' = [trk_acquired EXCEPT ![t] = result[t]]
    /\ UNCHANGED <<trk_body, trk_records, trk_delivered, timevars, cbvars, mgrvars,
                   monvars, metvars, restvars>>

\* how `await func(...)` (line 28) can end: it returns, it raises an Exception,
\* or the handler task is cancelled while the body is suspended (CancelledError
\* is no Exception)
BodyOutcomes == {"returned", "exception", "cancelled"}

\* `success` when the `finally` runs: False from line 24 unless line 29 ran
\* (faulty variant: only the `except Exception` branch counts as a failure)
TrackSuccessMut(outcome) == outcome # "exception"
TrackSuccess(outcome) == outcome = "returned"

\* `error_msg` when the `finally` runs: set on line 33 only
TrackErrorMsg(outcome) == IF outcome = "exception" THEN "timeout" ELSE "none"

\* what the wrapper hands to its caller: the body's value (line 30), or the
\* body's exception (line 35 re-raises; a CancelledError passes through)
TrackDelivers(outcome) == IF outcome = "returned" THEN "returned" ELSE "raised"

\* The handler ends: the `finally` of lines 37-43 records the request and the
\* service call, then the wrapper returns or re-raises and the task is over.
TrackBodyEnds(t, outcome) ==
    /\ trk_pc[t] = "in_func"
    /\ LET duration == clock - trk_start[t]
           success == TrackSuccess(outcome)
       IN  /\ RecordRequestEffect(TrackRequestType, duration, success)
           /\ RecordServiceCallEffect(TrackService, success, duration,
                                      TrackErrorMsg(outcome))
    /\ met_calls' = met_calls + 1
    /\ trk_pc' = [trk_pc EXCEPT ![t] = "over"]
    /\ trk_body' = [trk_body EXCEPT ![t] = outcome]
    /\ trk_records' = [trk_records EXCEPT ![t] = @ + 1]
    /\ trk_delivered' = [trk_delivered EXCEPT ![t] = TrackDelivers(outcome)]
    /\ UNCHANGED <<trk_start, trk_acquired, timevars, rlvars, cbvars, mgrvars, monvars,
                   restvars>>

\* ---------------------------------------------------------- HealthMonitor

\* self._cache_ttl = 30 (health_monitor.py:22), in seconds and in ticks
CacheTtlSeconds == 30
CacheTtl == CacheTtlSeconds * TicksPerSecond

\* the keys of health_status (health_monitor.py:210-231)
Dependencies == {"telegram", "yandex_gpt", "yandex_stt", "google_sheets"}

\* the place of each dependency's probe among the arguments of asyncio.gather
\* (lines 202-206), counted from 1
\* (faulty variant: two keys read each other's result)
GatherIndexMut(d) ==
    CASE d = "telegram" -> 1
      [] d = "yandex_gpt" -> 3
      [] d = "yandex_stt" -> 2
      [] d = "google_sheets" -> 4
GatherIndex(d) ==
    CASE d = "telegram" -> 1
      [] d = "yandex_gpt" -> 2
      [] d = "yandex_stt" -> 3
      [] d = "google_sheets" -> 4
GatherOrder == <<"telegram", "yandex_gpt", "yandex_stt", "google_sheets">>

\* How a probe coroutine can end: it returns a record with healthy True, it
\* returns a record with healthy False (not configured, a bad HTTP status, a
\* timeout or an exception caught by the probe's own `except`, lines 24-190),
\* or an exception leaves it.
ProbeOutcomes == {"healthy", "unhealthy", "raised"}

\* what asyncio.gather(..., return_exceptions=True) holds for a probe that ended
\* with outcome o: the record the probe returned, or the exception that left it
ProbeResult(o) ==
    CASE o = "healthy" -> [status |-> "healthy", healthy |-> TRUE]
      [] o = "unhealthy" -> [status |-> "degraded", healthy |-> FALSE]
      [] o = "raised" -> [exception |-> "ValueError"]

\* isinstance(result, Exception) (lines 211, 216, 221, 226)
IsException(r) == "exception" \in DOMAIN r /\ IsInstance(r.exception, "Exception")

\* one entry of health_status (lines 210-231)
HealthEntry(r) ==
    IF IsException(r) THEN [status |-> "error", healthy |-> FALSE] ELSE r

\* health_status of lines 209-232, from the list gather returned
HealthStatus(results) == [d \in Dependencies |-> HealthEntry(results[GatherIndex(d)])]

\* The runs of the four probes the model follows: no probe fails, one probe
\* fails or all four fail, the failed ones all by returning a failure or all by
\* raising.
FailedSets == {{}, Dependencies} \cup {{d} : d \in Dependencies}
ProbeRuns ==
    { [d \in Dependencies |-> IF d \in failed THEN kind ELSE "healthy"] :
        failed \in FailedSets, kind \in {"unhealthy", "raised"} }

\* self._cached_health = {} (line 21)
EmptyHealth == [d \in {} |-> [status |-> "none", healthy |-> FALSE]]

\* the cache test of lines 195-199
\* (faulty variant: a cache exactly one TTL old still counts as fresh)
CacheUsableMut(force, now) ==
    /\ ~force
    /\ hm_last_health_check # NoTime
    /\ now - hm_last_health_check <= CacheTtl
    /\ DOMAIN hm_cached_health # {}
CacheUsable(force, now) ==
    /\ ~force
    /\ hm_last_health_check # NoTime
    /\ now - hm_last_health_check < CacheTtl
    /\ DOMAIN hm_cached_health # {}

\* Task t calls check_all_services(force) (lines 192-207): the cached aggregate
\* is returned at once, or `now` is kept and the four probes are started.
CheckAllServices(t, force) ==
    /\ hm_pc[t] = "idle"
    /\ IF CacheUsable(force, clock)
       THEN /\ hm_returned' = hm_cached_health
            /\ hm_call' = <<t, force, TRUE>>
            /\ UNCHANGED <<hm_pc, hm_now, hm_seq, hm_checks>>
       ELSE /\ hm_checks < MaxHealthChecks
            /\ hm_checks' = hm_checks + 1
            /\ hm_pc' = [hm_pc EXCEPT ![t] = "probing"]
            /\ hm_now' = [hm_now EXCEPT ![t] = clock]
            /\ hm_seq' = [hm_seq EXCEPT ![t] = hm_checks + 1]
            /\ hm_call' = <<t, force, FALSE>>
            /\ UNCHANGED hm_returned
    /\ UNCHANGED <<hm_cached_health, hm_last_health_check, hm_probed, hm_cache_seq,
                   hm_done_seq, hm_done_now, timevars, rlvars, cbvars, mgrvars, monvars,
                   metvars, trkvars, bgvars, clsvars>>

\* The gather of task t's check is over, its probes having ended as `run` says:
\* health_status is built, stored with the `now` of the call's start, and
\* returned (lines 209-236).  The probes touch nothing the monitor keeps, so
\* their single ends are not steps of their own.
GatherDone(t, run) ==
    /\ hm_pc[t] = "probing"
    /\ LET results == [i \in 1..Len(GatherOrder) |-> ProbeResult(run[GatherOrder[i]])]
           health_status == HealthStatus(results)
       IN  /\ hm_cached_health' = health_status
           /\ hm_returned' = health_status
    /\ hm_last_health_check' = hm_now[t]
    /\ hm_pc' = [hm_pc EXCEPT ![t] = "idle"]
    /\ hm_probed' = run
    /\ hm_cache_seq' = hm_seq[t]
    /\ hm_done_seq' = IF hm_seq[t] > hm_done_seq THEN hm_seq[t] ELSE hm_done_seq
    /\ hm_done_now' = IF hm_seq[t] > hm_done_seq THEN hm_now[t] ELSE hm_done_now
    /\ UNCHANGED <<hm_now, hm_seq, hm_checks, hm_call, timevars, rlvars, cbvars, mgrvars,
                   monvars, metvars, trkvars, bgvars, clsvars>>

\* ------------------------------------------------------- background loops

\* deque(maxlen=60) (metrics.py:69-70)
SamplesMaxLen == 60

\* what one measurement of the metrics loop reads: <<cpu, memory>>, both low or
\* both high
MeterReadings ==
    {<<CpuThresholdPercent - 1, MemoryThresholdMb - 1>>,
     <<CpuThresholdPercent + 1, MemoryThresholdMb + 1>>}

\* where a loop is once the CancelledError is raised at its await:
\* `except asyncio.CancelledError: break` (metrics.py:102-103,
\* resource_monitor.py:42-43)
\* (faulty variant: the error is swallowed and the loop goes round again)
AfterCancelMut(waiting) == waiting
AfterCancel(waiting) == "done"

\* MetricsCollector.start() (metrics.py:75-77): the task is created and runs up
\* to its first asyncio.sleep(5).
MetricsStart ==
    /\ mc_task = "none"
    /\ mc_task' = "sleeping"
    /\ UNCHANGED <<mc_cancel, mc_stop, mc_hit, cpu_samples, memory_samples, rm_task,
                   rm_cancel, rm_stop, rm_hit, hmvars, clsvars, mgrvars, monvars, metvars, trkvars,
                   timevars, rlvars, cbvars>>

\* asyncio.sleep(5) is over: cpu_percent is handed to the executor (lines 92-97).
MetricsSleepDone ==
    /\ mc_task = "sleeping"
    /\ ~mc_cancel
    /\ mc_task' = "measuring"
    /\ UNCHANGED <<mc_cancel, mc_stop, mc_hit, cpu_samples, memory_samples, rm_task,
                   rm_cancel, rm_stop, rm_hit, hmvars, clsvars, mgrvars, monvars, metvars, trkvars,
                   timevars, rlvars, cbvars>>

\* The executor delivers cpu: memory is read, both samples are appended and the
\* loop sleeps again (lines 95-100).
MetricsMeasured(reading) ==
    /\ mc_task = "measuring"
    /\ ~mc_cancel
    /\ Len(cpu_samples) < MaxSamples
    /\ cpu_samples' = DequeAppend(cpu_samples, reading[1], SamplesMaxLen)
    /\ memory_samples' = DequeAppend(memory_samples, reading[2], SamplesMaxLen)
    /\ mc_task' = "sleeping"
    /\ UNCHANGED <<mc_cancel, mc_stop, mc_hit, rm_task, rm_cancel, rm_stop, rm_hit,
                   hmvars, clsvars, mgrvars, monvars, metvars, trkvars, timevars, rlvars, cbvars>>

\* psutil raises: the error is logged and the loop sleeps again (lines 104-105).
MetricsMeasureFails ==
    /\ mc_task = "measuring"
    /\ ~mc_cancel
    /\ mc_task' = "sleeping"
    /\ UNCHANGED <<mc_cancel, mc_stop, mc_hit, cpu_samples, memory_samples, rm_task,
                   rm_cancel, rm_stop, rm_hit, hmvars, clsvars, mgrvars, monvars, metvars, trkvars,
                   timevars, rlvars, cbvars>>

\* The event loop resumes the cancelled task: CancelledError is raised at the
\* await it was suspended in, whatever that await has produced meanwhile.
MetricsCancelled ==
    /\ mc_cancel
    /\ mc_task \in {"sleeping", "measuring"}
    /\ mc_task' = AfterCancel(mc_task)
    /\ mc_cancel' = FALSE
    /\ mc_hit' = mc_task
    /\ UNCHANGED <<mc_stop, cpu_samples, memory_samples, rm_task, rm_cancel, rm_stop,
                   rm_hit, hmvars, clsvars, mgrvars, monvars, metvars, trkvars, timevars, rlvars,
                   cbvars>>

\* MetricsCollector.stop() (metrics.py:79-86), up to `await self._cpu_monitor_task`
\* or, with no task, to its return.
MetricsStop ==
    /\ mc_stop = "idle"
    /\ IF mc_task = "none"
       THEN /\ mc_stop' = "stopped"
            /\ mc_cancel' = mc_cancel
       ELSE /\ mc_stop' = "awaiting"
            /\ mc_cancel' = (mc_task # "done")
    /\ UNCHANGED <<mc_task, mc_hit, cpu_samples, memory_samples, rm_task, rm_cancel,
                   rm_stop, rm_hit, hmvars, clsvars, mgrvars, monvars, metvars, trkvars, timevars,
                   rlvars, cbvars>>

\* The awaited task is over: stop() returns (lines 82-86).
MetricsStopReturns ==
    /\ mc_stop = "awaiting"
    /\ mc_task = "done"
    /\ mc_stop' = "stopped"
    /\ UNCHANGED <<mc_task, mc_cancel, mc_hit, cpu_samples, memory_samples, rm_task,
                   rm_cancel, rm_stop, rm_hit, hmvars, clsvars, mgrvars, monvars, metvars, trkvars,
                   timevars, rlvars, cbvars>>

\* ResourceMonitor.start_monitoring() (resource_monitor.py:24-26): the task is
\* created and runs up to its first asyncio.sleep(check_interval).
MonitorStart ==
    /\ rm_task = "none"
    /\ rm_task' = "running"
    /\ UNCHANGED <<mc_task, mc_cancel, mc_stop, mc_hit, cpu_samples, memory_samples,
                   rm_cancel, rm_stop, rm_hit, hmvars, clsvars, mgrvars, monvars, metvars, trkvars,
                   timevars, rlvars, cbvars>>

\* the steps of _monitor_loop, taken by a task that exists and is not cancelled
LoopSample(memory_mb) ==
    /\ rm_task = "running" /\ ~rm_cancel
    /\ MonitorSample(memory_mb)

LoopDecide(cpu_percent) ==
    /\ rm_task = "running" /\ ~rm_cancel
    /\ MonitorDecide(cpu_percent)

LoopCheckFails ==
    /\ rm_task = "running" /\ ~rm_cancel
    /\ MonitorCheckFails

\* The event loop resumes the cancelled monitor task: CancelledError is raised
\* at asyncio.sleep or at the run_in_executor await inside _check_resources and
\* leaves the loop (resource_monitor.py:40-43).
MonitorCancelled ==
    /\ rm_cancel
    /\ rm_task = "running"
    /\ rm_task' = AfterCancel(rm_task)
    /\ rm_cancel' = FALSE
    /\ rm_hit' = rm_pc
    /\ UNCHANGED <<mc_task, mc_cancel, mc_stop, mc_hit, cpu_samples, memory_samples,
                   rm_stop, hmvars, clsvars, mgrvars, monvars, metvars, trkvars, timevars, rlvars,
                   cbvars>>

\* ResourceMonitor.stop_monitoring() (resource_monitor.py:28-35), up to
\* `await self._monitor_task` or, with no task, to its return.
MonitorStop ==
    /\ rm_stop = "idle"
    /\ IF rm_task = "none"
       THEN /\ rm_stop' = "stopped"
            /\ rm_cancel' = rm_cancel
       ELSE /\ rm_stop' = "awaiting"
            /\ rm_cancel' = (rm_task # "done")
    /\ UNCHANGED <<mc_task, mc_cancel, mc_stop, mc_hit, cpu_samples, memory_samples,
                   rm_task, rm_hit, hmvars, clsvars, mgrvars, monvars, metvars, trkvars, timevars,
                   rlvars, cbvars>>

\* The awaited task is over: stop_monitoring() returns (lines 31-35).
MonitorStopReturns ==
    /\ rm_stop = "awaiting"
    /\ rm_task = "done"
    /\ rm_stop' = "stopped"
    /\ UNCHANGED <<mc_task, mc_cancel, mc_stop, mc_hit, cpu_samples, memory_samples,
                   rm_task, rm_cancel, rm_hit, hmvars, clsvars, mgrvars, monvars, metvars, trkvars,
                   timevars, rlvars, cbvars>>

\* ---------------------------------------------------------- specifications

vars == <<clock, advances, config, requests_last_second, requests_last_minute,
          lock_holder, lock_waiters, pc, wait_arg, wake, result, grants,
          failure_threshold, recovery_timeout, state, failure_count,
          last_failure_time, cb_pc, cb_outcome, cb_raised, is_trial, streak,
          trial_taken, second_trial, is_degraded, rate_limiters, was_degraded,
          last_call, mgr_calls, mgr_grants, mgr_mark, rm_is_degraded, rm_pc, rm_memory, rm_cpu,
          rm_check_call, rm_last_call, rm_reported, request_types, response_times, recorded,
          percentiles, services, last_op, health_report, met_calls, trk_pc,
          trk_start, trk_acquired, trk_body, trk_records, trk_delivered,
          hm_cached_health, hm_last_health_check, hm_pc, hm_now, hm_seq, hm_checks,
          hm_call, hm_probed, hm_returned, hm_cache_seq, hm_done_seq, hm_done_now,
          mc_task, mc_cancel, mc_stop, mc_hit, cpu_samples, memory_samples, rm_task,
          rm_cancel, rm_stop, rm_hit, cl_op, cl_lock_holder, cl_lock_waiters,
          cl_shadowed>>

TimeInit ==
    /\ clock = 0
    /\ advances = 0

\* RateLimiter.__init__ (throttle.py:19-23), all tasks outside acquire
LimiterInit ==
    /\ requests_last_second = <<>>
    /\ requests_last_minute = <<>>
    /\ lock_holder = NoTask
    /\ lock_waiters = <<>>
    /\ pc = [t \in Tasks |-> "idle"]
    /\ wait_arg = [t \in Tasks |-> FALSE]
    /\ wake = [t \in Tasks |-> 0]
    /\ result = [t \in Tasks |-> "none"]
    /\ grants = <<>>

\* CircuitBreaker.__init__ (circuit_breaker.py:16-27), all tasks outside call
BreakerInit ==
    /\ state = "closed"
    /\ failure_count = 0
    /\ last_failure_time = NoTime
    /\ cb_pc = [t \in Tasks |-> "idle"]
    /\ cb_outcome = [t \in Tasks |-> "none"]
    /\ cb_raised = [t \in Tasks |-> "none"]
    /\ is_trial = [t \in Tasks |-> FALSE]
    /\ streak = 0
    /\ trial_taken = FALSE
    /\ second_trial = FALSE

\* ThrottleManager.__init__ (throttle.py:66-86)
ManagerInit ==
    /\ is_degraded = FALSE
    /\ rate_limiters = [op \in OperationTypes |-> NewLimiter(NormalConfig)]
    /\ was_degraded = FALSE
    /\ last_call = <<>>
    /\ mgr_calls = 0
    /\ mgr_grants = [op \in OperationTypes |-> <<>>]
    /\ mgr_mark = [op \in OperationTypes |-> 0]

\* ResourceMonitor.__init__ (resource_monitor.py:12-22), the loop asleep
MonitorInit ==
    /\ rm_is_degraded = FALSE
    /\ rm_pc = "sleeping"
    /\ rm_memory = MemoryThresholdMb - 1
    /\ rm_cpu = CpuThresholdPercent - 1
    /\ rm_check_call = "none"
    /\ rm_last_call = "none"
    /\ rm_reported = <<>>

\* MetricsCollector.__init__ (metrics.py:55-73)
RequestsInit ==
    /\ request_types = [k \in {} |-> NewRequestMetrics]
    /\ response_times = <<>>
    /\ recorded = <<>>
    /\ percentiles = <<>>

ServicesInit ==
    /\ services = [n \in ServiceNames |-> NewServiceStatus]
    /\ last_op = <<>>
    /\ health_report = "none"

\* all tasks outside the track_request wrapper
TrackInit ==
    /\ trk_pc = [t \in Tasks |-> "idle"]
    /\ trk_start = [t \in Tasks |-> 0]
    /\ trk_acquired = [t \in Tasks |-> "none"]
    /\ trk_body = [t \in Tasks |-> "none"]
    /\ trk_records = [t \in Tasks |-> 0]
    /\ trk_delivered = [t \in Tasks |-> "none"]

\* HealthMonitor.__init__ (health_monitor.py:19-22), all tasks outside
\* check_all_services
HealthInit ==
    /\ hm_cached_health = EmptyHealth
    /\ hm_last_health_check = NoTime
    /\ hm_pc = [t \in Tasks |-> "idle"]
    /\ hm_now = [t \in Tasks |-> 0]
    /\ hm_seq = [t \in Tasks |-> 0]
    /\ hm_checks = 0
    /\ hm_call = <<>>
    /\ hm_probed = EmptyHealth
    /\ hm_returned = EmptyHealth
    /\ hm_cache_seq = 0
    /\ hm_done_seq = 0
    /\ hm_done_now = NoTime

\* no background task exists yet (metrics.py:72, resource_monitor.py:22), the
\* sample deques are empty (metrics.py:69-70)
BackgroundInit ==
    /\ mc_task = "none"
    /\ mc_cancel = FALSE
    /\ mc_stop = "idle"
    /\ mc_hit = "none"
    /\ cpu_samples = <<>>
    /\ memory_samples = <<>>
    /\ rm_task = "none"
    /\ rm_cancel = FALSE
    /\ rm_stop = "idle"
    /\ rm_hit = "none"

\* every limiter's lock is free (throttle.py:23), all tasks outside
\* ThrottleManager.acquire
ClassesInit ==
    /\ cl_op = [t \in Tasks |-> "none"]
    /\ cl_lock_holder = [op \in OperationTypes |-> NoTask]
    /\ cl_lock_waiters = [op \in OperationTypes |-> <<>>]
    /\ cl_shadowed = [t \in Tasks |-> FALSE]

RestInit ==
    /\ HealthInit
    /\ BackgroundInit
    /\ ClassesInit

\* the parts a specification of one component leaves in their first state
ExtInit ==
    /\ ManagerInit
    /\ MonitorInit
    /\ RequestsInit
    /\ ServicesInit
    /\ met_calls = 0
    /\ TrackInit
    /\ RestInit

\* One RateLimiter under concurrent acquire callers.
Init ==
    /\ TimeInit
    /\ config \in Configs
    /\ LimiterInit
    /\ failure_threshold = MaxThreshold
    /\ recovery_timeout = MaxRecoverySeconds * TicksPerSecond
    /\ BreakerInit
    /\ ExtInit

Next ==
    \/ \E t \in Tasks, w \in BOOLEAN : Acquire(t, w)
    \/ \E t \in Tasks : SleepDone(t)
    \/ \E t \in Tasks : Returned(t)
    \/ \E d \in AdvanceSteps : Advance(d)

Spec == Init /\ [][Next]_vars

\* One CircuitBreaker under concurrent call() callers.
InitBreaker ==
    /\ TimeInit
    /\ config = [max_requests_per_second |-> MaxPerSecond,
                 max_requests_per_minute |-> MaxPerMinute]
    /\ LimiterInit
    /\ failure_threshold \in (MaxThreshold - 1)..MaxThreshold
    /\ recovery_timeout = MaxRecoverySeconds * TicksPerSecond
    /\ BreakerInit
    /\ ExtInit

NextBreaker ==
    \/ \E t \in Tasks : Call(t)
    \/ \E t \in Tasks : FuncReturns(t)
    \/ \E t \in Tasks, e \in Errors : FuncRaises(t, e)
    \/ \E t \in Tasks : CallEnded(t)
    \/ \E d \in BreakerAdvanceSteps : Advance(d)

SpecBreaker == InitBreaker /\ [][NextBreaker]_vars

\* One CircuitBreaker whose dependency recovers at RecoveredAt.  Time keeps
\* advancing, every task keeps calling and every caller takes its outcome (weak
\* fairness); an attempt may still be abandoned with an error that is not
\* counted, but an attempt that is made again and again returns in the end
\* (strong fairness).
NextBreakerLive ==
    \/ \E t \in Tasks : Call(t)
    \/ \E t \in Tasks : FuncReturns(t)
    \/ \E t \in Tasks : FuncRaisesWhileDown(t)
    \/ \E t \in Tasks : FuncRaises(t, "other_error")
    \/ \E t \in Tasks : CallEnded(t)
    \/ Tick

FairBreakerLive ==
    /\ WF_vars(Tick)
    /\ \A t \in Tasks :
        /\ WF_vars(Call(t))
        /\ SF_vars(FuncReturns(t))
        /\ WF_vars(CallEnded(t))

SpecBreakerLive == InitBreaker /\ [][NextBreakerLive]_vars /\ FairBreakerLive

\* One ThrottleManager whose mode is switched by direct calls, under acquire
\* callers that do not wait.
InitManager == InitBreaker

NextManager ==
    \/ ManagerEnable
    \/ ManagerDisable
    \/ \E op \in OperationArgs : ManagerAcquire(op)
    \/ Advance(TicksPerSecond)

SpecManager == InitManager /\ [][NextManager]_vars

\* The ResourceMonitor loop as the only caller that switches the manager's mode.
InitMonitor == InitBreaker

NextMonitor ==
    \/ \E m \in MemorySamples : MonitorSample(m)
    \/ \E c \in CpuSamples : MonitorDecide(c)
    \/ MonitorCheckFails
    \/ ShouldThrottle
    \/ \E op \in OperationArgs : ManagerAcquire(op)

SpecMonitor == InitMonitor /\ [][NextMonitor]_vars

\* The collector after n earlier record_request("text", d, True) calls whose
\* durations rose (0, 1, ..., n-1, as in tests/test_metrics.py:95-97) or fell
\* (n-1, ..., 1, 0): empty, one sample, the hundred samples of the test in either
\* order, one short of a full buffer, and a full buffer.
EarlierRuns ==
    {<<0, TRUE>>, <<1, TRUE>>, <<100, TRUE>>, <<100, FALSE>>,
     <<ResponseTimesMaxLen - 1, TRUE>>, <<ResponseTimesMaxLen, TRUE>>}
EarlierDurations(n, rising) == [i \in 1..n |-> IF rising THEN i - 1 ELSE n - i]

\* One MetricsCollector under record_request and percentile callers.
InitRequests ==
    /\ TimeInit
    /\ config = [max_requests_per_second |-> MaxPerSecond,
                 max_requests_per_minute |-> MaxPerMinute]
    /\ LimiterInit
    /\ failure_threshold = MaxThreshold
    /\ recovery_timeout = MaxRecoverySeconds * TicksPerSecond
    /\ BreakerInit
    /\ ManagerInit
    /\ MonitorInit
    /\ ServicesInit
    /\ TrackInit
    /\ RestInit
    /\ met_calls = 0
    /\ percentiles = <<>>
    /\ \E run \in EarlierRuns :
        LET n == run[1]
        IN  /\ recorded = EarlierDurations(n, run[2])
            /\ response_times = recorded
            /\ request_types =
                    IF n = 0
                    THEN [k \in {} |-> NewRequestMetrics]
                    ELSE [k \in {"text"} |->
                            [count |-> n, success |-> n, errors |-> 0,
                             total_duration |-> (n * (n - 1)) \div 2]]

NextRequests ==
    \/ \E rt \in RequestTypeArgs, d \in DurationArgs, ok \in BOOLEAN :
            RecordRequest(rt, d, ok)
    \/ GetResponseTimePercentiles

SpecRequests == InitRequests /\ [][NextRequests]_vars

\* The ServiceStatus after s successful and f failed record_service_call calls
\* of one time unit each, made at time 0.
EarlierStatus(s, f) ==
    [last_success |-> IF s > 0 THEN 0 ELSE NoTime,
     last_failure |-> IF f > 0 THEN 0 ELSE NoTime,
     total_calls |-> s + f, success_calls |-> s, failed_calls |-> f,
     response_time_sum |-> s + f,
     last_error |-> IF f > 0 THEN "timeout" ELSE "none"]
\* no call yet, and 19 of 20 calls successful (tests/test_metrics.py:9-11)
EarlierStatuses == {EarlierStatus(0, 0), EarlierStatus(19, 1)}

\* One MetricsCollector under record_service_call and health callers.
InitServices ==
    /\ TimeInit
    /\ config = [max_requests_per_second |-> MaxPerSecond,
                 max_requests_per_minute |-> MaxPerMinute]
    /\ LimiterInit
    /\ failure_threshold = MaxThreshold
    /\ recovery_timeout = MaxRecoverySeconds * TicksPerSecond
    /\ BreakerInit
    /\ ManagerInit
    /\ MonitorInit
    /\ RequestsInit
    /\ TrackInit
    /\ RestInit
    /\ met_calls = 0
    /\ services \in [ServiceNames -> EarlierStatuses]
    /\ last_op = <<>>
    /\ health_report = "none"

NextServices ==
    \/ \E n \in ServiceArgs, ok \in BOOLEAN, e \in ErrorArgs :
            RecordServiceCall(n, ok, 1, e)
    \/ GetOverallHealth

SpecServices == InitServices /\ [][NextServices]_vars

\* Handler tasks run the track_request wrapper while the manager is in degraded
\* mode: the limiter of the handler's class has the Degraded caps.  One earlier
\* request of the class was granted, handled and recorded at time 0.
InitTrack ==
    /\ TimeInit
    /\ config = DegradedConfig
    /\ requests_last_second = <<0>>
    /\ requests_last_minute = <<0>>
    /\ grants = <<0>>
    /\ lock_holder = NoTask
    /\ lock_waiters = <<>>
    /\ pc = [t \in Tasks |-> "idle"]
    /\ wait_arg = [t \in Tasks |-> FALSE]
    /\ wake = [t \in Tasks |-> 0]
    /\ result = [t \in Tasks |-> "none"]
    /\ failure_threshold = MaxThreshold
    /\ recovery_timeout = MaxRecoverySeconds * TicksPerSecond
    /\ BreakerInit
    /\ is_degraded = TRUE
    /\ rate_limiters = ReplacedLimiters(DegradedConfig)
    /\ was_degraded = TRUE
    /\ last_call = <<"enable">>
    /\ mgr_calls = 0
    /\ mgr_grants = [op \in OperationTypes |-> <<>>]
    /\ mgr_mark = [op \in OperationTypes |-> 0]
    /\ MonitorInit
    /\ request_types =
            [k \in {TrackRequestType} |-> RequestAfterCall(NewRequestMetrics, 0, TRUE)]
    /\ response_times = <<0>>
    /\ recorded = <<0>>
    /\ percentiles = <<>>
    /\ services =
            [n \in ServiceNames |->
                IF n = TrackService
                THEN StatusAfterCall(NewServiceStatus, TRUE, 0, "none", 0)
                ELSE NewServiceStatus]
    /\ last_op = <<TrackService, TRUE, 0>>
    /\ health_report = "none"
    /\ met_calls = 0
    /\ TrackInit
    /\ RestInit

NextTrack ==
    \/ \E t \in Tasks : TrackCall(t)
    \/ \E t \in Tasks : SleepDone(t)
    \/ \E t \in Tasks : TrackBodyStarts(t)
    \/ \E t \in Tasks, o \in BodyOutcomes : TrackBodyEnds(t, o)
    \/ Advance(1)

SpecTrack == InitTrack /\ [][NextTrack]_vars

\* One HealthMonitor under concurrent check_all_services callers, within one
\* reading of the clock: what the probes of a check do to its result.
NextHealth ==
    \/ \E t \in Tasks, force \in BOOLEAN : CheckAllServices(t, force)
    \/ \E t \in Tasks, run \in ProbeRuns : GatherDone(t, run)

SpecHealth == InitBreaker /\ [][NextHealth]_vars

\* the runs in which all probes succeed or all raise
CacheRuns == {run \in ProbeRuns : \A d, e \in Dependencies : run[d] = run[e] /\ run[d] # "unhealthy"}

\* One HealthMonitor under concurrent check_all_services callers while time
\* passes: what is cached and for how long.  The clock moves by one tick or
\* by one tick less than the cache TTL.
NextHealthCache ==
    \/ \E t \in Tasks, force \in BOOLEAN : CheckAllServices(t, force)
    \/ \E t \in Tasks, run \in CacheRuns : GatherDone(t, run)
    \/ \E d \in {1, CacheTtl - 1} : Advance(d)

SpecHealthCache == InitBreaker /\ [][NextHealthCache]_vars

\* The two background loops from start to stop.  The event loop runs what is
\* ready: a cancelled task is resumed, and a caller whose awaited task is over
\* is resumed (weak fairness).
NextLoops ==
    \/ MetricsStart
    \/ MetricsSleepDone
    \/ \E reading \in MeterReadings : MetricsMeasured(reading)
    \/ MetricsMeasureFails
    \/ MetricsCancelled
    \/ MetricsStop
    \/ MetricsStopReturns
    \/ MonitorStart
    \/ \E m \in MemorySamples : LoopSample(m)
    \/ LoopDecide(CpuThresholdPercent)
    \/ LoopCheckFails
    \/ MonitorCancelled
    \/ MonitorStop
    \/ MonitorStopReturns

FairLoops ==
    /\ WF_vars(MetricsCancelled)
    /\ WF_vars(MetricsStopReturns)
    /\ WF_vars(MonitorCancelled)
    /\ WF_vars(MonitorStopReturns)

SpecLoops == InitBreaker /\ [][NextLoops]_vars /\ FairLoops

\* Tasks call ThrottleManager.acquire on the classes of a manager in degraded
\* mode; one earlier request of every class was granted at time 0.
InitClasses ==
    /\ TimeInit
    /\ config = DegradedConfig
    /\ LimiterInit
    /\ failure_threshold = MaxThreshold
    /\ recovery_timeout = MaxRecoverySeconds * TicksPerSecond
    /\ BreakerInit
    /\ is_degraded = TRUE
    /\ rate_limiters =
            [op \in OperationTypes |-> AcquireNoWait(NewLimiter(DegradedConfig), 0).limiter]
    /\ was_degraded = TRUE
    /\ last_call = <<"enable">>
    /\ mgr_calls = 0
    /\ mgr_grants = [op \in OperationTypes |-> <<0>>]
    /\ mgr_mark = [op \in OperationTypes |-> 0]
    /\ MonitorInit
    /\ RequestsInit
    /\ ServicesInit
    /\ met_calls = 0
    /\ TrackInit
    /\ RestInit

\* the operation types passed to acquire here: two of the manager's classes
\* and a name that is none of them
ClassArgs == {"ai", "sheets", "unknown"}

NextClasses ==
    \/ \E t \in Tasks, op \in ClassArgs, w \in BOOLEAN : ClassAcquire(t, op, w)
    \/ \E t \in Tasks : ClassSleepDone(t)
    \/ \E t \in Tasks : ClassReturned(t)
    \/ Advance(TicksPerSecond)

SpecClasses == InitClasses /\ [][NextClasses]_vars

\* ------------------------------------------------------ RateLimiter claims

\* The lock is only ever seen taken while its holder sleeps in the wait path or
\* waits in the nested acquire: every other pass through lines 27-54 takes and
\* releases it in one step, so no release ever finds a waiter to wake.
LockHeldOnlyAcrossSleep ==
    lock_holder # NoTask => pc[lock_holder] \in {"sleeping", "retry_wait"}

IsSuffix(a, b) ==
    Len(a) <= Len(b) /\ a = SubSeq(b, Len(b) - Len(a) + 1, Len(b))

\* C1: under any interleaving of acquire callers, the calls that returned True
\* within the trailing second never outnumber max_requests_per_second, and those
\* within the trailing minute never outnumber max_requests_per_minute; the two
\* queues count exactly the grants made (none lost, none counted twice).
C1_WindowCaps ==
    /\ CountWithin(grants, clock, SecondWindow) <= config.max_requests_per_second
    /\ CountWithin(grants, clock, MinuteWindow) <= config.max_requests_per_minute
    /\ CountWithin(requests_last_second, clock, SecondWindow)
         = CountWithin(grants, clock, SecondWindow)
    /\ CountWithin(requests_last_minute, clock, MinuteWindow)
         = CountWithin(grants, clock, MinuteWindow)

\* Both caps were met by concurrent callers: one was granted the last slot of the
\* second, another was refused.
C1_Witness ==
    /\ CountWithin(grants, clock, SecondWindow) = config.max_requests_per_second
    /\ CountWithin(grants, clock, MinuteWindow) = config.max_requests_per_minute
    /\ \E t, u \in Tasks : result[t] = "true" /\ result[u] = "false"

\* C2: acquire(wait=False) returns True, appending the current time to both
\* queues, exactly when fewer than max_requests_per_second grants are less than a
\* second old and fewer than max_requests_per_minute less than a minute old;
\* otherwise it returns False and appends nothing.
C2_NoWaitDecision ==
    [][\A t \in Tasks :
        (pc[t] = "idle" /\ pc'[t] = "returned" /\ ~wait_arg'[t]) =>
            LET below ==
                    /\ CountWithin(grants, clock, SecondWindow)
                         < config.max_requests_per_second
                    /\ CountWithin(grants, clock, MinuteWindow)
                         < config.max_requests_per_minute
                s == requests_last_second'
                m == requests_last_minute'
            IN  IF below
                THEN /\ result'[t] = "true"
                     /\ s # <<>> /\ s[Len(s)] = clock
                     /\ m # <<>> /\ m[Len(m)] = clock
                     /\ IsSuffix(SubSeq(s, 1, Len(s) - 1), requests_last_second)
                     /\ IsSuffix(SubSeq(m, 1, Len(m) - 1), requests_last_minute)
                     /\ grants' = Append(grants, clock)
                ELSE /\ result'[t] = "false"
                     /\ IsSuffix(s, requests_last_second)
                     /\ IsSuffix(m, requests_last_minute)
                     /\ grants' = grants
      ]_vars

\* A call was refused by the per-minute cap alone, and a later call, made once
\* the grants of the full second had aged out, was granted.
C2_Witness ==
    \E t, u \in Tasks :
        /\ pc[t] = "returned" /\ ~wait_arg[t] /\ result[t] = "false"
        /\ pc[u] = "returned" /\ ~wait_arg[u] /\ result[u] = "true"
        /\ Len(grants) > config.max_requests_per_second
        /\ grants[Len(grants)] = clock
        /\ CountWithin(grants, clock, SecondWindow) = 1

\* C3: an acquire(wait=True) that slept retries once with wait=False and returns
\* the retry's result: no task whose sleep is over is left suspended in the
\* nested acquire, waiting for the lock its own outer call still holds.
C3_WaitRetryReturns ==
    \A t \in Tasks : ~(pc[t] = "retry_wait" /\ lock_holder = t)

\* C4: the lock is held only across prune-check-append: no task holds it while
\* asleep in the wait path, and no caller is ever kept waiting for the lock.
C4_LockNotHeldAsleep ==
    \A t \in Tasks :
        /\ pc[t] = "sleeping" => lock_holder # t
        /\ pc[t] # "lock_wait"

\* --------------------------------------------------- CircuitBreaker claims

\* C5: while Closed every call reaches the wrapped operation, failure_count is the
\* number of counted failures since the last success and stays below the
\* threshold; the breaker opens exactly on the failure that makes it
\* failure_threshold, recording last_failure_time.
C5_ClosedCounts ==
    /\ [](state = "closed" => failure_count = streak /\ streak < failure_threshold)
    /\ [][state = "closed" =>
            /\ \A t \in Tasks :
                 (cb_pc[t] = "idle" /\ cb_pc'[t] # "idle") => cb_pc'[t] = "in_func"
            /\ (state' = "open") <=> (streak' >= failure_threshold)
            /\ state' = "open" =>
                 /\ failure_count' = failure_threshold
                 /\ last_failure_time' = clock
            /\ state' \in {"closed", "open"}
            /\ (streak' = 0 \/ streak' = streak + 1 \/ streak' = streak)
            /\ failure_count' = streak'
      ]_vars

\* The threshold's last failure has just opened a breaker with a threshold above 1.
C5_Witness ==
    /\ state = "open"
    /\ failure_threshold > 1
    /\ failure_count = failure_threshold
    /\ streak = failure_threshold
    /\ last_failure_time = clock
    /\ advances > 0

\* C6: a call() made while Open and before recovery_timeout has passed is rejected
\* at once, does not reach the wrapped operation and changes none of state,
\* failure_count and last_failure_time.
C6_OpenRejects ==
    [][\A t \in Tasks :
        (/\ cb_pc[t] = "idle" /\ cb_pc'[t] # "idle"
         /\ state = "open"
         /\ clock - last_failure_time < recovery_timeout) =>
            /\ cb_pc'[t] = "done"
            /\ cb_outcome'[t] = "rejected"
            /\ UNCHANGED <<state, failure_count, last_failure_time>>
      ]_vars

\* A call was rejected one tick before the recovery timeout.
C6_Witness ==
    /\ state = "open"
    /\ clock - last_failure_time = recovery_timeout - 1
    /\ \E t \in Tasks : cb_pc[t] = "done" /\ cb_outcome[t] = "rejected"

\* C7: a call() made while Open once recovery_timeout has passed moves the breaker
\* to HalfOpen and reaches the wrapped operation, and when that call succeeds the
\* breaker is Closed with failure_count = 0.
C7_TrialSuccessCloses ==
    /\ [][\A t \in Tasks :
            (/\ cb_pc[t] = "idle" /\ cb_pc'[t] # "idle"
             /\ state = "open"
             /\ clock - last_failure_time >= recovery_timeout) =>
                (state' = "half_open" /\ cb_pc'[t] = "in_func")
         ]_vars
    /\ [][\A t \in Tasks :
            (cb_pc[t] = "in_func" /\ is_trial[t] /\ cb_outcome'[t] = "succeeded") =>
                (state' = "closed" /\ failure_count' = 0)
         ]_vars

\* C8: in HalfOpen a call that fails with a counted error opens the breaker and
\* refreshes last_failure_time, whatever failure_count is.
C8_HalfOpenFailureOpens ==
    [][\A t \in Tasks :
        (/\ state = "half_open"
         /\ cb_pc[t] = "in_func"
         /\ cb_outcome'[t] = "expected_error") =>
            (state' = "open" /\ last_failure_time' = clock)
      ]_vars

\* C9: between entering HalfOpen and leaving it, at most one call() reaches the
\* wrapped operation.
C9_SingleTrial == ~second_trial

\* C10: an error outside the expected_exception category reaches the caller as it
\* was raised and leaves state, failure_count and last_failure_time as they were.
C10_OtherErrorFrame ==
    [][\A t \in Tasks, e \in Errors :
        (cb_pc[t] = "in_func" /\ cb_pc'[t] = "done" /\ cb_outcome'[t] = e) =>
            /\ e = "other_error" =>
                 UNCHANGED <<state, failure_count, last_failure_time>>
            /\ e = "expected_error" => failure_count' = failure_count + 1
      ]_vars

\* An error of another category ended the trial call of a HalfOpen breaker.
C10_Witness ==
    /\ state = "half_open"
    /\ failure_count >= failure_threshold
    /\ \E t \in Tasks : cb_outcome[t] = "other_error" /\ is_trial[t]

\* C11: call() delivers three outcomes the caller can tell apart: a returned
\* value for a successful attempt, the operation's own error for a failed one,
\* and for a rejected call an exception of a class that no attempted call
\* delivers.
C11_RejectionDistinct ==
    \A t \in Tasks :
        /\ cb_outcome[t] = "succeeded" => cb_raised[t] = "none"
        /\ cb_outcome[t] = "rejected" => cb_raised[t] # "none"
        /\ cb_outcome[t] \in Errors => cb_raised[t] \notin {"none", RejectionClass}

\* C26: in every state reachable through call() alone, interleaved completions
\* of calls that started while Closed included, a breaker that is Open or
\* HalfOpen has failure_count >= failure_threshold and a last_failure_time.
C26_OpenImpliesThreshold ==
    state \in {"open", "half_open"} =>
        (failure_count >= failure_threshold /\ last_failure_time # NoTime)

\* C30: once the dependency has recovered, with time advancing and calls
\* arriving, a breaker that is Open or HalfOpen becomes Closed in the end; the
\* state changes only in a step of some call(), never in a step in which only
\* time passes.
C30_EventuallyClosed ==
    /\ (state \in {"open", "half_open"}) ~> (state = "closed")
    /\ [][state' # state =>
            /\ clock' = clock
            /\ \E t \in Tasks : cb_pc'[t] # cb_pc[t]]_vars

\* after the recovery the call that moved the breaker to HalfOpen has
\* succeeded and closed it
C30_Witness ==
    /\ clock >= RecoveredAt
    /\ state = "closed"
    /\ last_failure_time # NoTime
    /\ \E t \in Tasks : is_trial[t] /\ cb_outcome[t] = "succeeded"

\* ------------------------------------------------- ThrottleManager claims

\* C12: after any sequence of enable_degraded_mode() and disable_degraded_mode()
\* calls every operation class has a limiter with the Degraded caps when
\* is_degraded is true and with the Normal caps when it is false, never a
\* mixture; an enable that takes effect gives every class a new limiter with
\* stricter caps, and a disable that takes effect gives every class the Normal
\* caps again.
C12_ModeCaps ==
    /\ [](/\ DOMAIN rate_limiters = OperationTypes
          /\ \A op \in OperationTypes :
                rate_limiters[op].config =
                    IF is_degraded THEN DegradedConfig ELSE NormalConfig)
    /\ [][(~is_degraded /\ is_degraded') =>
            \A op \in OperationTypes :
                /\ rate_limiters'[op].config.max_requests_per_second
                     < rate_limiters[op].config.max_requests_per_second
                /\ rate_limiters'[op].config.max_requests_per_minute
                     < rate_limiters[op].config.max_requests_per_minute
                /\ rate_limiters'[op].requests_last_second = <<>>
                /\ rate_limiters'[op].requests_last_minute = <<>>
         ]_vars
    /\ [][(is_degraded /\ ~is_degraded') =>
            \A op \in OperationTypes : rate_limiters'[op].config = NormalConfig
         ]_vars

\* disable_degraded_mode() has just undone an earlier enable_degraded_mode().
C12_Witness ==
    /\ ~is_degraded
    /\ was_degraded
    /\ last_call = <<"disable">>

\* C13: enable_degraded_mode() called while degraded and disable_degraded_mode()
\* called while normal change nothing: is_degraded, every class's limiter and
\* the timestamps the limiters hold stay as they were.
C13_NoOps ==
    [][(\/ (last_call' = <<"enable">> /\ is_degraded)
        \/ (last_call' = <<"disable">> /\ ~is_degraded)) =>
            UNCHANGED <<is_degraded, rate_limiters>>
      ]_vars

\* enable_degraded_mode() was called on a degraded manager whose limiters had
\* recorded grants: the grants are still there.
C13_Witness ==
    /\ is_degraded
    /\ last_call = <<"enable">>
    /\ \E op \in OperationTypes : rate_limiters[op].requests_last_minute # <<>>

\* C27: a mode switch does not forget recent grants: the grants of one class
\* inside any trailing second never exceed the Normal per-second cap, and after
\* a grant made in degraded mode the grants of that class inside the trailing
\* second, those made before the switch included, are within the Degraded cap.
C27_GrantsSurviveSwitch ==
    \A op \in OperationTypes :
        LET recent == CountWithin(mgr_grants[op], clock, SecondWindow)
        IN  /\ recent <= NormalConfig.max_requests_per_second
            /\ (is_degraded /\ last_call = <<"acquire", op, TRUE>>) =>
                    recent <= DegradedConfig.max_requests_per_second

\* the grants of class op made by its current limiter, the one installed by the
\* last mode switch (or by __init__)
GrantsSinceSwitch(op) == SubSeq(mgr_grants[op], mgr_mark[op] + 1, Len(mgr_grants[op]))

\* C27, amended: a mode switch installs limiters with empty windows, so grants
\* made before it are not counted after it; the grants one class's current
\* limiter made inside any trailing second never exceed the per-second cap of
\* the current mode.
C27_CapSinceSwitch ==
    \A op \in OperationTypes :
        CountWithin(GrantsSinceSwitch(op), clock, SecondWindow) <=
            (IF is_degraded THEN DegradedConfig ELSE NormalConfig).max_requests_per_second

\* in degraded mode a class holds three grants inside one second: one made
\* before the switch and the two its new limiter allows
C27_Witness ==
    \E op \in OperationTypes :
        /\ is_degraded
        /\ mgr_mark[op] = 1
        /\ Len(mgr_grants[op]) = 3
        /\ CountWithin(mgr_grants[op], clock, SecondWindow) = 3

\* C24: the locks are per class.  A call of acquire on a class whose own lock
\* is free is never queued and gets the answer the class's own windows give,
\* whatever the tasks of other classes are doing (blocked, asleep in the wait
\* path, holding their limiter's lock); it touches no other class's limiter or
\* lock; and a class's lock is held or awaited by tasks of that class only.
C24_ClassesIndependent ==
    /\ [](\A op \in OperationTypes :
            /\ cl_lock_holder[op] # NoTask => cl_op[cl_lock_holder[op]] = op
            /\ \A i \in DOMAIN cl_lock_waiters[op] : cl_op[cl_lock_waiters[op][i]] = op)
    /\ [][\A t \in Tasks :
            (pc[t] = "idle" /\ pc'[t] # "idle" /\ cl_op'[t] \in OperationTypes) =>
                LET op == cl_op'[t]
                    l == rate_limiters[op]
                    room == /\ CountWithin(l.requests_last_second, clock, SecondWindow)
                                < l.config.max_requests_per_second
                            /\ CountWithin(l.requests_last_minute, clock, MinuteWindow)
                                < l.config.max_requests_per_minute
                IN  /\ \A o \in OperationTypes \ {op} :
                        /\ rate_limiters'[o] = rate_limiters[o]
                        /\ cl_lock_holder'[o] = cl_lock_holder[o]
                        /\ cl_lock_waiters'[o] = cl_lock_waiters[o]
                    /\ (cl_lock_holder[op] = NoTask /\ cl_lock_waiters[op] = <<>>) =>
                        /\ pc'[t] # "lock_wait"
                        /\ room => (pc'[t] = "returned" /\ result'[t] = "true")
                        /\ (~room /\ ~wait_arg'[t]) =>
                                (pc'[t] = "returned" /\ result'[t] = "false")
                        /\ (~room /\ wait_arg'[t]) => pc'[t] = "sleeping"
         ]_vars

\* a task sleeps in the wait path of one class with that class's lock held, a
\* second task waits for the same lock, and a call on another class, made
\* meanwhile, has returned True
C24_Witness ==
    \E t, u \in Tasks :
        /\ pc[t] \in {"sleeping", "retry_wait"}
        /\ cl_op[t] \in OperationTypes
        /\ cl_lock_holder[cl_op[t]] = t
        /\ pc[u] = "returned" /\ result[u] = "true"
        /\ cl_op[u] \in OperationTypes \ {cl_op[t]}
        /\ cl_shadowed[u]

\* ------------------------------------------------- ResourceMonitor claims

\* C14: a check calls enable_degraded_mode() only when memory or cpu is above its
\* threshold and the monitor's flag is false, disable_degraded_mode() only when
\* neither is above and the flag is true, and nothing when the decision equals
\* the flag; so the calls alternate, starting with an enable.
C14_EdgeTriggered ==
    [][(rm_pc = "sampling" /\ rm_pc' = "sleeping") =>
        LET high == \/ rm_memory > MemoryThresholdMb
                    \/ rm_cpu' > CpuThresholdPercent
        IN  /\ rm_check_call' = "enable" =>
                 (high /\ ~rm_is_degraded /\ rm_last_call # "enable")
            /\ rm_check_call' = "disable" =>
                 (~high /\ rm_is_degraded /\ rm_last_call = "enable")
            /\ (high <=> rm_is_degraded) => rm_check_call' = "none"
            /\ rm_is_degraded' = (rm_last_call' = "enable")
      ]_vars

\* A check whose memory and cpu samples were exactly at their thresholds has
\* called disable_degraded_mode().
C14_Witness ==
    /\ rm_check_call = "disable"
    /\ rm_memory = MemoryThresholdMb
    /\ rm_cpu = CpuThresholdPercent
    /\ ~is_degraded

\* C28: with the ResourceMonitor as the only caller of enable_degraded_mode and
\* disable_degraded_mode, whenever no check is in progress should_throttle()
\* returns ThrottleManager.is_degraded, and a should_throttle() call changes
\* nothing but the value handed to its caller.
C28_FlagsAgree ==
    [][/\ rm_pc' = "sleeping" => rm_is_degraded' = is_degraded'
       /\ rm_reported' # rm_reported =>
            /\ rm_reported' = <<is_degraded'>>
            /\ UNCHANGED <<rm_is_degraded, rm_pc, rm_memory, rm_cpu, rm_check_call,
                           rm_last_call, mgrvars, metvars, trkvars, timevars, rlvars,
                           cbvars>>]_vars

\* should_throttle() returned False after a check left degraded mode
C28_Witness ==
    /\ rm_pc = "sleeping"
    /\ rm_last_call = "disable"
    /\ rm_reported = <<FALSE>>
    /\ ~is_degraded

\* ------------------------------------------------ MetricsCollector claims

\* C16: after any sequence of record_request calls count = success + errors for
\* every operation class, and each call adds 1 to the count of its class and 1 to
\* exactly one of success and errors, leaving the other classes alone.
C16_RequestCounts ==
    /\ [](\A rt \in DOMAIN request_types :
            request_types[rt].count
                = request_types[rt].success + request_types[rt].errors)
    /\ [][Len(recorded') = Len(recorded) + 1 =>
            \E rt \in DOMAIN request_types' :
                LET known == rt \in DOMAIN request_types
                    count == IF known THEN request_types[rt].count ELSE 0
                    success == IF known THEN request_types[rt].success ELSE 0
                    errors == IF known THEN request_types[rt].errors ELSE 0
                    after == request_types'[rt]
                IN  /\ after.count = count + 1
                    /\ \/ after.success = success + 1 /\ after.errors = errors
                       \/ after.success = success /\ after.errors = errors + 1
                    /\ \A other \in DOMAIN request_types' \ {rt} :
                         /\ other \in DOMAIN request_types
                         /\ request_types'[other] = request_types[other]
         ]_vars

\* Two classes have been recorded, one of them with successes and errors.
C16_Witness ==
    /\ Cardinality(DOMAIN request_types) = 2
    /\ \E rt \in DOMAIN request_types :
        request_types[rt].success > 0 /\ request_types[rt].errors > 0

\* C17: after any sequence of record_service_call calls, with registered and
\* unregistered names, successes and failures, every ServiceStatus has
\* total_calls = success_calls + failed_calls.
C17_ServiceTotals ==
    \A n \in DOMAIN services :
        services[n].total_calls = services[n].success_calls + services[n].failed_calls

\* A dependency has successes and at least two failures on record, and the last
\* call named an unregistered dependency.
C17_Witness ==
    /\ last_op # <<>>
    /\ last_op[1] \notin ServiceNames
    /\ \E n \in DOMAIN services :
        services[n].success_calls > 0 /\ services[n].failed_calls > 1

\* C18: a dependency is unhealthy exactly when it has at least one call and fewer
\* than 95% of its calls succeeded; get_overall_health() returns "healthy" with
\* no unhealthy dependency, "degraded" with one and "unhealthy" with two or more.
C18_OverallHealth ==
    health_report # "none" =>
        LET unhealthy ==
                { n \in ServiceNames :
                    /\ services[n].total_calls >= 1
                    /\ services[n].success_calls * 100 < 95 * services[n].total_calls }
        IN  health_report =
                CASE Cardinality(unhealthy) = 0 -> "healthy"
                  [] Cardinality(unhealthy) = 1 -> "degraded"
                  [] OTHER -> "unhealthy"

\* Health was reported as degraded while a dependency stood at exactly 19
\* successes in 20 calls, which counts as healthy.
C18_Witness ==
    /\ health_report = "degraded"
    /\ met_calls > 0
    /\ \E n \in ServiceNames :
        services[n].total_calls = 20 /\ services[n].success_calls = 19

\* the value v stands at zero-based index k of the buffer sorted ascending
AtSortedIndex(v, k) ==
    /\ Cardinality({i \in DOMAIN response_times : response_times[i] < v}) <= k
    /\ Cardinality({i \in DOMAIN response_times : response_times[i] <= v}) > k

\* C19: the latency buffer holds the most recent min(n, 1000) of the n durations
\* recorded; get_response_time_percentiles() returns the elements at zero-based
\* indexes floor(count * 0.50), floor(count * 0.95) and floor(count * 0.99) of
\* the sorted buffer, all 0 for an empty buffer, and p50 = 50, p95 = 95 over the
\* samples 0..99.
C19_Percentiles ==
    /\ LET n == Len(recorded)
           kept == IF n < 1000 THEN n ELSE 1000
       IN  response_times = SubSeq(recorded, n - kept + 1, n)
    /\ percentiles # <<>> =>
        LET count == Len(response_times)
        IN  IF count = 0
            THEN percentiles = <<0, 0, 0>>
            ELSE /\ AtSortedIndex(percentiles[1], (count * 50) \div 100)
                 /\ AtSortedIndex(percentiles[2], (count * 95) \div 100)
                 /\ AtSortedIndex(percentiles[3], (count * 99) \div 100)
    /\ (percentiles # <<>> /\ Len(recorded) = 100
            /\ \A i \in 1..100 : recorded[i] = i - 1) =>
        (percentiles[1] = 50 /\ percentiles[2] = 95)

\* Percentiles were taken from a full buffer that had evicted its oldest samples
\* for newer ones.
C19_Witness ==
    /\ percentiles # <<>>
    /\ Len(recorded) > ResponseTimesMaxLen
    /\ Len(response_times) = ResponseTimesMaxLen
    /\ response_times[ResponseTimesMaxLen] # recorded[ResponseTimesMaxLen]
    /\ percentiles[1] < percentiles[3]

\* C20: record_service_call with a name that is not a registered dependency
\* changes no ServiceStatus and adds no entry: the tracked dependencies are
\* always the four registered ones.
C20_UnknownIgnored ==
    /\ [](DOMAIN services = ServiceNames)
    /\ [][(last_op' # <<>> /\ last_op'[1] \notin ServiceNames) =>
            services' = services
         ]_vars

\* A failed call for an unregistered dependency was recorded after calls for
\* registered ones.
C20_Witness ==
    /\ last_op # <<>>
    /\ last_op[1] \notin ServiceNames
    /\ ~last_op[2]
    /\ \E n \in ServiceNames : services[n].total_calls \notin {0, 20}

\* --------------------------------------------------- track_request claims

C25_RecordedOnce ==
    /\ [](\A t \in Tasks :
            /\ trk_pc[t] = "in_func" => trk_records[t] = 0
            /\ trk_pc[t] = "over" =>
                /\ trk_records[t] = 1
                /\ trk_delivered[t] = "returned" <=> trk_body[t] = "returned")
    /\ [][\A t \in Tasks :
            trk_records'[t] # trk_records[t] =>
                LET before == request_types[TrackRequestType]
                    after == request_types'[TrackRequestType]
                    ok == trk_body'[t] = "returned"
                IN  /\ trk_pc[t] = "in_func" /\ trk_pc'[t] = "over"
                    /\ after.count = before.count + 1
                    /\ after.success = before.success + (IF ok THEN 1 ELSE 0)
                    /\ after.errors = before.errors + (IF ok THEN 0 ELSE 1)
         ]_vars

\* one handler returned and was recorded as a success, another was cancelled
\* in its body and was recorded as an error
C25_Witness ==
    \E t, u \in Tasks :
        /\ trk_body[t] = "returned" /\ trk_records[t] = 1
        /\ trk_body[u] = "cancelled" /\ trk_records[u] = 1
        /\ trk_delivered[u] = "raised"
        /\ request_types[TrackRequestType].errors = 1

\* ---------------------------------------------------- HealthMonitor claims

\* C21: a check that runs its probes completes however they end, and returns a
\* map with one record for each of the four dependencies: a probe that raised
\* gives its own dependency a record with healthy = false, every other
\* dependency has the record its probe produced.
C21_AllRecords ==
    /\ [](\A t \in Tasks : hm_pc[t] = "probing" =>
            \A run \in ProbeRuns : ENABLED GatherDone(t, run))
    /\ [][\A t \in Tasks :
            (hm_pc[t] = "probing" /\ hm_pc'[t] = "idle") =>
                /\ DOMAIN hm_returned' = Dependencies
                /\ \A d \in Dependencies :
                    /\ DOMAIN hm_returned'[d] = {"status", "healthy"}
                    /\ hm_probed'[d] = "raised" => hm_returned'[d].healthy = FALSE
                    /\ hm_probed'[d] # "raised" =>
                            hm_returned'[d] = ProbeResult(hm_probed'[d])
         ]_vars

\* the telegram probe raised: its record says so, the other three dependencies
\* are reported healthy
C21_Witness ==
    /\ DOMAIN hm_probed = Dependencies
    /\ hm_probed["telegram"] = "raised"
    /\ hm_returned["telegram"] = [status |-> "error", healthy |-> FALSE]
    /\ \A d \in Dependencies \ {"telegram"} : hm_returned[d].healthy

\* C22: a call with force = false made less than the TTL after the stored
\* timestamp, the cache not empty, returns the cached aggregate and starts no
\* probe; any other call (force = true, the TTL elapsed, nothing cached) runs
\* the probes, and its completion stores the new aggregate with the call's
\* timestamp.
C22_CacheOrProbe ==
    [][/\ (hm_call' # hm_call \/ \E t \in Tasks : hm_pc[t] = "idle" /\ hm_pc'[t] = "probing") =>
            LET caller == hm_call'[1]
                force == hm_call'[2]
                fresh == /\ hm_last_health_check # NoTime
                         /\ clock - hm_last_health_check < CacheTtlSeconds * TicksPerSecond
                         /\ hm_cached_health # EmptyHealth
            IN  IF ~force /\ fresh
                THEN /\ hm_call'[3]
                     /\ hm_returned' = hm_cached_health
                     /\ UNCHANGED <<hm_pc, hm_checks, hm_cached_health, hm_last_health_check>>
                ELSE /\ ~hm_call'[3]
                     /\ hm_pc[caller] = "idle" /\ hm_pc'[caller] = "probing"
                     /\ hm_checks' = hm_checks + 1
       /\ \A t \in Tasks :
            (hm_pc[t] = "probing" /\ hm_pc'[t] = "idle") =>
                /\ DOMAIN hm_probed' = Dependencies
                /\ hm_cached_health' = hm_returned'
                /\ hm_last_health_check' = hm_now[t]
      ]_vars

\* a call without force is answered from the cache one tick before the TTL ends,
\* the cache being that of a check made once the TTL of an earlier one was over
C22_Witness ==
    /\ \E t \in Tasks : hm_call = <<t, FALSE, TRUE>>
    /\ hm_checks = 2
    /\ hm_last_health_check >= CacheTtl
    /\ clock - hm_last_health_check = CacheTtl - 1
    /\ hm_returned = hm_cached_health

\* C29: under concurrent check_all_services calls the cached aggregate and its
\* timestamp are those of the completed check that started last: a check that
\* started earlier never overwrites them, and the timestamp never moves back.
C29_CacheIsLatest ==
    /\ hm_cache_seq = hm_done_seq
    /\ hm_last_health_check = hm_done_now

\* ------------------------------------------------- background loop claims

\* C23: a stop() or stop_monitoring() that found a task ends with the loop
\* terminated, wherever the cancellation reached it; from the moment the task
\* is cancelled no sample is appended and no mode decision is made; a stop
\* before the start changes nothing and returns at once.
C23_LoopsStop ==
    /\ (mc_stop = "awaiting") ~> (mc_task = "done" /\ mc_stop = "stopped")
    /\ (rm_stop = "awaiting") ~> (rm_task = "done" /\ rm_stop = "stopped")
    /\ [][/\ (mc_cancel \/ mc_task = "done") =>
               UNCHANGED <<cpu_samples, memory_samples>>
          /\ (rm_cancel \/ rm_task = "done") =>
               UNCHANGED <<rm_is_degraded, rm_pc, rm_check_call, rm_last_call, mgrvars>>
          /\ (mc_stop = "idle" /\ mc_stop' # "idle" /\ mc_task = "none") =>
               (mc_stop' = "stopped" /\ UNCHANGED <<mc_task, mc_cancel, metvars>>)
          /\ (rm_stop = "idle" /\ rm_stop' # "idle" /\ rm_task = "none") =>
               (rm_stop' = "stopped" /\ UNCHANGED <<rm_task, rm_cancel, monvars, mgrvars>>)
         ]_vars

\* both loops are over and both stops have returned: the metrics loop, with a
\* sample appended, was cancelled in a measurement, the monitor loop, with
\* degraded mode entered, in its sleep
C23_Witness ==
    /\ mc_task = "done" /\ mc_stop = "stopped" /\ mc_hit = "measuring"
    /\ Len(cpu_samples) = 1
    /\ rm_task = "done" /\ rm_stop = "stopped" /\ rm_hit = "sleeping"
    /\ rm_last_call = "enable"

====
